---- MODULE Spec2Model ----
(***************************************************************************)
(* Model of the DFFL statistics scripts: the shared standardization code   *)
(* of config.py (column renaming, player-number cleaning, dtype coercion), *)
(* the duplicated clean_player_number helpers of main.py and               *)
(* update_2025_stats.py, and the scraper's extract_table_data /            *)
(* update_2025_data control flow.                                          *)
(*                                                                         *)
(* Python values are modelled as records tagged by their Python type.      *)
(* Text is a sequence of one-character strings, so that str(), strip(),    *)
(* float(), int() and str.contains() are computed character by character.  *)
(* Python integers are unbounded; they are kept as sign and magnitude in   *)
(* two base-10^8 limbs so that the 53-bit mantissa of float() is visible.  *)
(***************************************************************************)
EXTENDS Integers, Sequences, FiniteSets, TLC

\* state of the player-number cleaning run: the raw cell value and what each
\* of the three clean_player_number definitions returned for it
VARIABLES value, cfg_result, main_result, upd_result, recleaned

cleanVars == <<value, cfg_result, main_result, upd_result, recleaned>>

\* state of the standardization run: the frames in memory (heap[1] is the
\* German-named export, heap[2] the same rows under English names), their
\* contents before any call, the next call to make, and what the calls returned
VARIABLES heap, df_before, std_pc, historic_df, current_df, plain_df

stdVars == <<heap, df_before, std_pc, historic_df, current_df, plain_df>>

\* state of one run of update_2025_data: the statement reached, the value
\* returned, the exception in flight and where it was raised, the browser,
\* the two frames the run extracts and the two files it writes
VARIABLES pc, ret, exc, failed_at, browser, main_stats_df, detail_stats_df,
          main_file, detail_file

\* state of the running call of extract_table_data: its table_id, what it
\* returned, the methods attempted so far and how the API attempt ended
VARIABLES ex_table, ex_result, attempts, api_outcome

updVars == <<pc, ret, exc, failed_at, browser, main_stats_df, detail_stats_df,
             main_file, detail_file>>

exVars == <<ex_table, ex_result, attempts, api_outcome>>

\* state of one run of fetch_dffl_csv: the statement reached, the value
\* returned, why the run raised, the file dffl_stats.csv, the approaches that
\* wrote it, the approaches attempted and what the DataTables API gave
VARIABLES fetch_pc, fetch_ret, fetch_exc, fetch_file, fetch_writes, fetch_attempts,
          fetch_csv

fetchVars == <<fetch_pc, fetch_ret, fetch_exc, fetch_file, fetch_writes,
               fetch_attempts, fetch_csv>>

\* state of one run of merge_detailed_stats.py: the statement reached, the
\* position in historic_files, the input files on disk, the frames loaded, the
\* warnings printed, the exception raised, and the two output files
VARIABLES merge_pc, merge_i, merge_files, dfs, merge_warned, merge_exc,
          historic_out, input_2025, output_2025

mergeVars == <<merge_pc, merge_i, merge_files, dfs, merge_warned, merge_exc,
               historic_out, input_2025, output_2025>>

\* state of one run of update_historic_data: the statement reached, the file
\* dffl_stats.csv, the frame df, the file dffl_stats_historic.csv, the value
\* returned and the exception raised
VARIABLES hist_pc, hist_file, hist_df, hist_out, hist_ret, hist_exc

histVars == <<hist_pc, hist_file, hist_df, hist_out, hist_ret, hist_exc>>

\* state of one run of the dashboard script main.py: the step reached, the
\* steps executed so far, the error banner shown, the combined dataset as
\* loaded, after the player-name merge and after the league merge, the three
\* mapping tables and whether the tabs were rendered
VARIABLES dash_pc, dash_steps, dash_banner, dash_loaded, dash_named, dash_df,
          player_mapping, player_subset, league_mapping, team_info, dash_tabs

dashVars == <<dash_pc, dash_steps, dash_banner, dash_loaded, dash_named, dash_df,
              player_mapping, player_subset, league_mapping, team_info, dash_tabs>>

\* the variables of the batch scripts and of the dashboard
\* the Top Players tab of main.py: the selection, the filtered event rows and
\* the table
VARIABLES top_pc, top_df, selected_year, selected_event_type, selected_league,
          filtered_df, top_players

topVars == <<top_pc, top_df, selected_year, selected_event_type, selected_league,
             filtered_df, top_players>>

laterVars == <<fetchVars, mergeVars, histVars, dashVars, topVars>>

\* what the steps of fetch_dffl_csv leave alone
outsideFetch == <<cleanVars, stdVars, updVars, exVars, mergeVars, histVars, dashVars, topVars>>

\* what the steps of merge_detailed_stats.py leave alone
outsideMerge == <<cleanVars, stdVars, updVars, exVars, fetchVars, histVars, dashVars, topVars>>

\* what the steps of main.py leave alone
outsideDash == <<cleanVars, stdVars, updVars, exVars, fetchVars, mergeVars, histVars, topVars>>

\* what the steps of update_historic_data leave alone
outsideHist == <<cleanVars, stdVars, updVars, exVars, fetchVars, mergeVars, dashVars, topVars>>

\* what the steps of the Top Players tab leave alone
outsideTop == <<cleanVars, stdVars, updVars, exVars, fetchVars, mergeVars, histVars, dashVars>>

vars == <<cleanVars, stdVars, updVars, exVars, laterVars>>

\* ------------------------------------------------------------------------
\* Bounds of the model
\* ------------------------------------------------------------------------
\* longest text enumerated exhaustively over TextAlphabet
MaxLen == 4

\* ------------------------------------------------------------------------
\* Python integers and text
\* ------------------------------------------------------------------------
\* one limb of a wide integer holds eight decimal digits
Limb == 100000000

\* 2^53 = 9007199254740992, the first integer whose successor is not a double
Two53Hi == 90071992
Two53Lo == 54740992

WInt(neg, hi, lo) == [t |-> "int", neg |-> (neg /\ (hi # 0 \/ lo # 0)), hi |-> hi, lo |-> lo]

\* a small Python int
PyInt(n) == IF n < 0 THEN WInt(TRUE, 0, 0 - n) ELSE WInt(FALSE, 0, n)

PyStr(s) == [t |-> "str", s |-> s]

\* a Python float d + tenths/10 (only the floats a CSV column of small numbers holds)
PyFloat(neg, d, tenths) == [t |-> "float", neg |-> neg, d |-> d, tenths |-> tenths]

PyNone == [t |-> "None"]

\* float('nan'), the missing value of a float64/object column
PyNaN == [t |-> "nan"]

\* pandas.NA, the missing value of an Int64 column
PyNA == [t |-> "NA"]

\* the flag raised by a Python exception
Raise == [t |-> "raise"]

DigitChars == {"0", "1", "2", "3", "4", "5", "6", "7", "8", "9"}

DigitVal(c) ==
    CASE c = "0" -> 0 [] c = "1" -> 1 [] c = "2" -> 2 [] c = "3" -> 3 [] c = "4" -> 4
      [] c = "5" -> 5 [] c = "6" -> 6 [] c = "7" -> 7 [] c = "8" -> 8 [] c = "9" -> 9

DigitChar(d) == <<"0", "1", "2", "3", "4", "5", "6", "7", "8", "9">>[d + 1]

\* str.isdigit on one character
IsDigit(c) == c \in DigitChars

\* the whitespace str.strip() removes
IsSpace(c) == c = " "

RECURSIVE LStrip(_)
LStrip(s) == IF s # <<>> /\ IsSpace(Head(s)) THEN LStrip(Tail(s)) ELSE s

RECURSIVE RStrip(_)
RStrip(s) ==
    IF s # <<>> /\ IsSpace(s[Len(s)]) THEN RStrip(SubSeq(s, 1, Len(s) - 1)) ELSE s

\* str.strip()
Strip(s) == RStrip(LStrip(s))

\* ''.join(filter(str.isdigit, s))
RECURSIVE FilterDigits(_)
FilterDigits(s) ==
    IF s = <<>> THEN <<>>
    ELSE IF IsDigit(Head(s)) THEN <<Head(s)>> \o FilterDigits(Tail(s))
    ELSE FilterDigits(Tail(s))

AllDigits(s) == \A i \in 1..Len(s) : IsDigit(s[i])

\* magnitude of a digit string: fold v := 10*v + d over the two limbs
RECURSIVE DigitsToW(_, _, _)
DigitsToW(s, hi, lo) ==
    IF s = <<>> THEN <<hi, lo>>
    ELSE LET lo10 == lo * 10 + DigitVal(Head(s))
         IN  DigitsToW(Tail(s), hi * 10 + (lo10 \div Limb), lo10 % Limb)

\* decimal digits of a natural number below one limb, without leading zeros
RECURSIVE NatDigits(_)
NatDigits(n) ==
    IF n < 10 THEN <<DigitChar(n)>> ELSE NatDigits(n \div 10) \o <<DigitChar(n % 10)>>

RECURSIVE ZeroPad(_, _)
ZeroPad(s, width) == IF Len(s) >= width THEN s ELSE ZeroPad(<<"0">> \o s, width)

\* str(n) of a Python int
StrOfInt(w) ==
    (IF w.neg THEN <<"-">> ELSE <<>>) \o
    (IF w.hi = 0 THEN NatDigits(w.lo)
     ELSE NatDigits(w.hi) \o ZeroPad(NatDigits(w.lo), 8))

\* str(x) of a Python float d.t
StrOfFloat(f) ==
    (IF f.neg THEN <<"-">> ELSE <<>>) \o NatDigits(f.d) \o <<".">> \o <<DigitChar(f.tenths)>>

\* str(value)
PyStrOf(v) ==
    CASE v.t = "str" -> v.s
      [] v.t = "int" -> StrOfInt(v)
      [] v.t = "float" -> StrOfFloat(v)
      [] v.t = "None" -> <<"N", "o", "n", "e">>
      [] v.t = "nan" -> <<"n", "a", "n">>
      [] v.t = "NA" -> <<"<", "N", "A", ">">>

\* pandas.isna(value) for a scalar
IsNA(v) == v.t \in {"None", "nan", "NA"}

\* position of the first "." of s, or 0
RECURSIVE DotPos(_, _)
DotPos(s, i) == IF i > Len(s) THEN 0 ELSE IF s[i] = "." THEN i ELSE DotPos(s, i + 1)

\* the unsigned body of a float literal: digits [. [digits]] or . digits
IsFloatBody(b) ==
    LET p == DotPos(b, 1)
        ip == IF p = 0 THEN b ELSE SubSeq(b, 1, p - 1)
        fp == IF p = 0 THEN <<>> ELSE SubSeq(b, p + 1, Len(b))
    IN  /\ AllDigits(ip)
        /\ AllDigits(fp)
        /\ Len(ip) + Len(fp) > 0

HasSign(s) == s # <<>> /\ Head(s) \in {"-", "+"}

\* round a magnitude to the nearest double (ties to even); exact up to 2^53,
\* and every second integer between 2^53 and 2^54
RoundToDouble(hi, lo) ==
    IF hi < Two53Hi \/ (hi = Two53Hi /\ lo <= Two53Lo) \/ lo % 2 = 0
    THEN <<hi, lo>>
    ELSE IF (lo + 1) % 4 = 0
         THEN (IF lo + 1 = Limb THEN <<hi + 1, 0>> ELSE <<hi, lo + 1>>)
         ELSE <<hi, lo - 1>>

\* the digits before the first "." of an unsigned float literal
IntegerPart(b, p) == IF p = 0 THEN b ELSE SubSeq(b, 1, p - 1)

\* a magnitude <<hi, lo>> rounded to a double, with its sign
RoundedInt(neg, m) == WInt(neg, RoundToDouble(m[1], m[2])[1], RoundToDouble(m[1], m[2])[2])

ExactInt(neg, m) == WInt(neg, m[1], m[2])

IsMinus(u) == u # <<>> /\ Head(u) = "-"

Unsigned(u) == IF HasSign(u) THEN Tail(u) ELSE u

\* int(float(u)) for a stripped text u: Raise when float() rejects the text.
\* The fraction is dropped by int(); the integer part is rounded to a double.
IntOfFloatStripped(u, b) ==
    IF ~IsFloatBody(b) THEN Raise
    ELSE RoundedInt(IsMinus(u), DigitsToW(IntegerPart(b, DotPos(b, 1)), 0, 0))

\* int(float(s)): float() ignores surrounding whitespace
IntOfFloatText(s) == IntOfFloatStripped(Strip(s), Unsigned(Strip(s)))

IntOfStripped(u, b) ==
    IF b = <<>> \/ ~AllDigits(b) THEN Raise ELSE ExactInt(IsMinus(u), DigitsToW(b, 0, 0))

\* int(s) for a text s: Raise unless s is an optionally signed digit string
IntOfText(s) == IntOfStripped(Strip(s), Unsigned(Strip(s)))

\* the None that an except branch returns for a failed conversion
NoneIfRaised(r) == IF r = Raise THEN PyNone ELSE r

\* ------------------------------------------------------------------------
\* clean_player_number, the three definitions
\* ------------------------------------------------------------------------
\* a slip of config.clean_player_number: int() applied to the text directly
config_clean_player_number_NoFloat(val) ==
    IF IsNA(val) THEN PyNone
    ELSE NoneIfRaised(IntOfText(PyStrOf(val)))

\* config.clean_player_number: the try block's failure is caught and gives None
config_clean_player_number(val) ==
    IF IsNA(val) THEN PyNone
    ELSE NoneIfRaised(IntOfFloatText(PyStrOf(val)))

\* main.clean_player_number
main_clean_player_number(val) ==
    IF IsNA(val) THEN PyNone
    ELSE NoneIfRaised(IntOfFloatText(PyStrOf(val)))

\* update_2025_stats.clean_player_number: keeps the digits, accepts 1..99
AcceptedNumber(cleaned, m) ==
    IF cleaned = <<>> THEN PyNone
    ELSE IF m[1] = 0 /\ 0 < m[2] /\ m[2] < 100 THEN WInt(FALSE, 0, m[2])
    ELSE PyNone

DigitsOnly(cleaned) == AcceptedNumber(cleaned, DigitsToW(cleaned, 0, 0))

update_clean_player_number(val) ==
    IF IsNA(val) THEN PyNone ELSE DigitsOnly(FilterDigits(Strip(PyStrOf(val))))

\* ------------------------------------------------------------------------
\* config.py: COLUMN_MAPPING, EXPECTED_COLUMNS, standardize_dataframe
\* ------------------------------------------------------------------------
\* A dataframe is a sequence of columns [name, dtype, data]; every column of
\* a frame has the same number of cells.  Column names are unique in the
\* frames the scripts read (read_csv and DataFrame(list of dicts) both give
\* unique names) and an export carries a column under its German or its
\* English name, never both, so names stay unique after renaming.

\* the mapping update_2025_stats.py carries and never uses
COLUMN_MAPPING_Scraper ==
    ("Team" :> "Team") @@ ("Spielernummer" :> "Player Number") @@ ("Anzahl" :> "Count")
      @@ ("Event" :> "Event") @@ ("Jahr" :> "Year") @@ ("Gegen" :> "Against")
      @@ ("Spieltag" :> "Game Day") @@ ("Datum" :> "Date") @@ ("stage" :> "Stage")
      @@ ("standing" :> "Standing") @@ ("scheduled" :> "Scheduled")
      @@ ("created_time" :> "Created Time")

\* a slip of COLUMN_MAPPING: the entry for Spielernummer is missing
COLUMN_MAPPING_NoPlayer ==
    ("Team" :> "Team") @@ ("Anzahl" :> "Count")
      @@ ("Event" :> "Event") @@ ("Jahr" :> "Year") @@ ("Gegen" :> "Opponent")
      @@ ("Spieltag" :> "Matchday") @@ ("Datum" :> "Date") @@ ("stage" :> "Stage")
      @@ ("standing" :> "Standing") @@ ("scheduled" :> "Scheduled Time")
      @@ ("created_time" :> "Created Time")

COLUMN_MAPPING ==
    ("Team" :> "Team") @@ ("Spielernummer" :> "Player Number") @@ ("Anzahl" :> "Count")
      @@ ("Event" :> "Event") @@ ("Jahr" :> "Year") @@ ("Gegen" :> "Opponent")
      @@ ("Spieltag" :> "Matchday") @@ ("Datum" :> "Date") @@ ("stage" :> "Stage")
      @@ ("standing" :> "Standing") @@ ("scheduled" :> "Scheduled Time")
      @@ ("created_time" :> "Created Time")

EXPECTED_COLUMNS ==
    ("Team" :> "str") @@ ("Player Number" :> "str") @@ ("Count" :> "int")
      @@ ("Event" :> "str") @@ ("Year" :> "int") @@ ("Opponent" :> "str")
      @@ ("Matchday" :> "str") @@ ("Date" :> "str") @@ ("Stage" :> "str")
      @@ ("Standing" :> "str") @@ ("Scheduled Time" :> "str") @@ ("Created Time" :> "str")

Column(name, dtype, data) == [name |-> name, dtype |-> dtype, data |-> data]

\* df.columns
Columns(df) == [i \in 1..Len(df) |-> df[i].name]

\* col in df.columns
HasColumn(df, col) == \E i \in 1..Len(df) : df[i].name = col

\* len(df)
NumRows(df) == IF df = <<>> THEN 0 ELSE Len(df[1].data)

\* df.rename(columns=rename_dict) with rename_dict the entries of
\* COLUMN_MAPPING whose key is a column of df
Rename(df) ==
    [i \in 1..Len(df) |->
        IF df[i].name \in DOMAIN COLUMN_MAPPING
        THEN Column(COLUMN_MAPPING[df[i].name], df[i].dtype, df[i].data)
        ELSE df[i]]

\* Series.apply(clean_player_number).astype('Int64'): None becomes <NA>
NAIfNone(r) == IF r = PyNone THEN PyNA ELSE r

CleanColumn(c) ==
    Column(c.name, "Int64",
           [k \in 1..Len(c.data) |-> NAIfNone(config_clean_player_number(c.data[k]))])

\* df['Player Number'] = ... on the frame itself
CleanPlayerNumbers(df) ==
    [i \in 1..Len(df) |-> IF df[i].name = "Player Number" THEN CleanColumn(df[i]) ELSE df[i]]

\* int(x) of one cell, as numpy does for astype(int): Raise for a missing
\* value or a text that is not an integer literal; a float is truncated
IntOfCell(v) ==
    CASE v.t = "int" -> v
      [] v.t = "float" -> WInt(v.neg, 0, v.d)
      [] v.t = "str" -> IntOfText(v.s)
      [] OTHER -> Raise

\* Series.astype(str): every cell becomes the text str() gives for it
AstypeStr(c) ==
    Column(c.name, "object", [k \in 1..Len(c.data) |-> PyStr(PyStrOf(c.data[k]))])

\* Series.astype(int): Raise when one cell cannot be converted
AstypeInt(c) ==
    IF \E k \in 1..Len(c.data) : IntOfCell(c.data[k]) = Raise THEN Raise
    ELSE Column(c.name, "int64", [k \in 1..Len(c.data) |-> IntOfCell(c.data[k])])

AstypeColumn(c) ==
    IF c.name \notin DOMAIN EXPECTED_COLUMNS THEN c
    ELSE IF EXPECTED_COLUMNS[c.name] = "str" THEN AstypeStr(c)
    ELSE AstypeInt(c)

\* df.astype(type_conversions) raises when one column cannot be converted
AstypeRaises(df) == \E i \in 1..Len(df) : AstypeColumn(df[i]) = Raise

\* df.astype(type_conversions) for the expected columns that exist
Astype(df) == [i \in 1..Len(df) |-> AstypeColumn(df[i])]

\* a reference to the frame heap[id]
Ref(id) == [t |-> "ref", id |-> id]

\* The heap holds the frames; a Python name is a reference into it.
Alloc(h) == Len(h) + 1

\* a slip of df.copy(): the name is rebound to the caller's own frame
DfAlias(h, ref) == [heap |-> h, ref |-> ref]

\* df.copy(): a new frame with the same columns and cells
DfCopy(h, ref) == [heap |-> Append(h, h[ref]), ref |-> Alloc(h)]

\* if is_german: df = df.rename(columns=rename_dict); rename returns a new frame
StdRename(c, is_german) ==
    IF is_german
    THEN [heap |-> Append(c.heap, Rename(c.heap[c.ref])), ref |-> Alloc(c.heap)]
    ELSE c

\* if 'Player Number' in df.columns: the assignment to df['Player Number']
\* changes the frame that df names
StdClean(r) ==
    IF HasColumn(r.heap[r.ref], "Player Number")
    THEN [r EXCEPT !.heap[r.ref] = CleanPlayerNumbers(@)]
    ELSE r

\* if type_conversions: df = df.astype(type_conversions); return df
StdAstype(p, df) ==
    IF \A i \in 1..Len(df) : df[i].name \notin DOMAIN EXPECTED_COLUMNS
    THEN [heap |-> p.heap, ret |-> Ref(p.ref)]
    ELSE IF AstypeRaises(df) THEN [heap |-> p.heap, ret |-> Raise]
    ELSE [heap |-> Append(p.heap, Astype(df)), ret |-> Ref(Alloc(p.heap))]

StdCoerce(p) == StdAstype(p, p.heap[p.ref])

\* standardize_dataframe(df, is_german) on heap h with df bound to arg:
\* the heap afterwards, and the reference returned or Raise
standardize_dataframe(h, arg, is_german) ==
    StdCoerce(StdClean(StdRename(DfCopy(h, arg), is_german)))

\* ------------------------------------------------------------------------
\* update_2025_stats.py: process_downloaded_data and the year filter
\* ------------------------------------------------------------------------
\* a frame as a Python value
FrameVal(df) == [t |-> "frame", df |-> df]

PyTrue == [t |-> "bool", b |-> TRUE]
PyFalse == [t |-> "bool", b |-> FALSE]

\* pd.DataFrame(): no columns, no rows
EmptyDataFrame == <<>>

\* df.empty
IsEmpty(df) == df = <<>> \/ NumRows(df) = 0

\* what a call of standardize_dataframe on a frame of its own gives
StdResult(call) == IF call.ret = Raise THEN Raise ELSE FrameVal(call.heap[call.ret.id])

Standardized(df, is_german) == StdResult(standardize_dataframe(<<df>>, 1, is_german))

\* read_csv types a column int64 when every cell is an integer literal and
\* leaves it an object column of text otherwise
InferColumn(c) ==
    IF c.data # <<>> /\ \A k \in 1..Len(c.data) : IntOfText(c.data[k].s) # Raise
    THEN Column(c.name, "int64", [k \in 1..Len(c.data) |-> IntOfText(c.data[k].s)])
    ELSE c

\* pd.read_csv(StringIO(csv_data)) of the exported table
ReadCsv(table) == [i \in 1..Len(table) |-> InferColumn(table[i])]

\* the response of the export that read_csv cannot parse
BadCsv == [t |-> "badcsv"]

FrameOrEmpty(r) == IF r = Raise THEN EmptyDataFrame ELSE r.df

\* process_downloaded_data(csv_data): the standardized frame, or an empty
\* DataFrame when reading or standardizing raised
process_downloaded_data(csv_data) ==
    IF csv_data = BadCsv THEN EmptyDataFrame
    ELSE FrameOrEmpty(Standardized(ReadCsv(csv_data.df), TRUE))

\* any(x in str(col).lower() for x in ['jahr', 'year', 'datum', 'date']),
\* for the column names of the modelled tables
IsYearColumn(col) == col \in {"Jahr", "Year", "Datum", "Date"}

\* index of year_columns[0], or 0 when year_columns is empty
RECURSIVE FirstYearColumn(_, _)
FirstYearColumn(df, i) ==
    IF i > Len(df) THEN 0
    ELSE IF IsYearColumn(df[i].name) THEN i
    ELSE FirstYearColumn(df, i + 1)

\* pat in s, for a pattern of plain characters
Contains(s, pat) ==
    \E i \in 0..(Len(s) - Len(pat)) : SubSeq(s, i + 1, i + Len(pat)) = pat

\* df[year_col].astype(str).str.contains(year_filter), row by row
YearMask(c, year_filter) ==
    [k \in 1..Len(c.data) |-> Contains(PyStrOf(c.data[k]), year_filter)]

\* the cells of the rows the mask selects, in order
RECURSIVE SelectRows(_, _)
SelectRows(data, mask) ==
    IF data = <<>> THEN <<>>
    ELSE (IF Head(mask) THEN <<Head(data)>> ELSE <<>>) \o SelectRows(Tail(data), Tail(mask))

\* df[mask]
FilterFrame(df, mask) ==
    [i \in 1..Len(df) |-> Column(df[i].name, df[i].dtype, SelectRows(df[i].data, mask))]

\* df[df[year_col].astype(str).str.contains(year_filter)]
FilterByYear(df, year_col, year_filter) ==
    FilterFrame(df, YearMask(df[year_col], year_filter))

\* ------------------------------------------------------------------------
\* update_2025_stats.py: extract_table_data
\* ------------------------------------------------------------------------
\* how an extraction method ended, and the frame it returns when it returns
Ended(outcome) == [outcome |-> outcome, df |-> EmptyDataFrame]
ReturnsFrame(df) == [outcome |-> "returned", df |-> df]

\* Method 1, lines 238-251: the rows of the year, or nothing to return
ApiYearRows(df_filtered) ==
    IF ~IsEmpty(df_filtered) THEN ReturnsFrame(df_filtered) ELSE Ended("no_year_rows")

\* Method 1, lines 229-260, for the processed frame and its year_columns[0]
ApiFrame(df, year_col, year_filter) ==
    IF IsEmpty(df) THEN Ended("empty")
    ELSE IF year_col # 0 THEN ApiYearRows(FilterByYear(df, year_col, year_filter))
    ELSE ReturnsFrame(df)

ApiProcessed(df, year_filter) == ApiFrame(df, FirstYearColumn(df, 1), year_filter)

\* Method 1 (DataTables API) for the response csv_data of page.evaluate:
\* Raise when the evaluation raised, None when the page resolved null
Method1Outcome(csv_data, year_filter) ==
    IF csv_data = Raise THEN Ended("raised")
    ELSE IF csv_data = PyNone THEN Ended("no_csv")
    ELSE ApiProcessed(process_downloaded_data(csv_data), year_filter)

\* Method 2: standardize_dataframe raising is caught by the except of line 457
DomProcessed(processed) ==
    IF processed = Raise THEN Ended("raised") ELSE ReturnsFrame(processed.df)

\* Method 2, lines 424-446: the rows of the year, or all rows when there are none
DomYear(df, df_year) ==
    IF ~IsEmpty(df_year) THEN DomProcessed(Standardized(df_year, TRUE))
    ELSE DomProcessed(Standardized(df, TRUE))

\* Method 2, lines 412-456, for df = pd.DataFrame(all_data)
DomFrame(df, year_col, year_filter) ==
    IF IsEmpty(df) THEN Ended("empty")
    ELSE IF year_col # 0 THEN DomYear(df, FilterByYear(df, year_col, year_filter))
    ELSE DomProcessed(Standardized(df, TRUE))

\* Method 2 (DOM) for the rows all_data the page gave: Raise when an
\* evaluation raised; an empty list is falsy and skips the block
Method2Outcome(all_data, year_filter) ==
    IF all_data = Raise THEN Ended("raised")
    ELSE IF NumRows(all_data.df) = 0 THEN Ended("no_rows")
    ELSE DomFrame(all_data.df, FirstYearColumn(all_data.df, 1), year_filter)

\* a slip of Method 1: the return statements are missing
AfterApi_FallThrough(outcome) == "dom"

\* where extract_table_data continues after Method 1
AfterApi(outcome) == IF outcome = "returned" THEN "return" ELSE "dom"

\* a slip of the outer handler: only the timeout is caught
IsException_TimeoutOnly(kind) == kind = "PlaywrightTimeoutError"

\* except Exception as e: every exception the run raises is an Exception
IsException(kind) == kind \in {"PlaywrightTimeoutError", "Exception", "Error"}

\* ------------------------------------------------------------------------
\* Cell values a player-number column can hold
\* ------------------------------------------------------------------------
TextAlphabet == {"0", "1", "9", ".", " ", "-", "x"}

Texts(n) == UNION {[1..k -> TextAlphabet] : k \in 0..n}

\* 2^53, 2^53+1, 2^53+2, 2^53+3 as text, and 2^53+1 written as a decimal
BigDigits(last) ==
    <<"9", "0", "0", "7", "1", "9", "9", "2", "5", "4", "7", "4", "0", "9", "9">> \o <<last>>

BigTexts ==
    {BigDigits(c) : c \in {"2", "3", "4", "5"}} \cup {BigDigits("3") \o <<".", "0">>}

CellValues ==
    {PyStr(s) : s \in Texts(MaxLen) \cup BigTexts}
      \cup {PyInt(n) : n \in {0, 7, 19, 100}}
      \cup {WInt(FALSE, Two53Hi, Two53Lo + 1)}
      \cup {PyFloat(FALSE, 19, 0), PyFloat(FALSE, 7, 5), PyFloat(TRUE, 0, 0)}
      \cup {PyNone, PyNaN}

\* a result that has not been computed yet
Pending == [t |-> "pending"]

CleanIdle ==
    /\ value = PyNone
    /\ cfg_result = Pending
    /\ main_result = Pending
    /\ upd_result = Pending
    /\ recleaned = Pending

StdIdle ==
    /\ heap = <<>>
    /\ df_before = <<>>
    /\ std_pc = "idle"
    /\ historic_df = Pending
    /\ current_df = Pending
    /\ plain_df = Pending

ScrapeIdle ==
    /\ pc = "idle"
    /\ ret = Pending
    /\ exc = "none"
    /\ failed_at = "none"
    /\ browser = "none"
    /\ main_stats_df = Pending
    /\ detail_stats_df = Pending
    /\ main_file = Pending
    /\ detail_file = Pending
    /\ ex_table = "none"
    /\ ex_result = Pending
    /\ attempts = <<>>
    /\ api_outcome = "none"

\* a file that does not exist
Absent == [t |-> "absent"]

FetchIdle ==
    /\ fetch_pc = "idle"
    /\ fetch_ret = Pending
    /\ fetch_exc = "none"
    /\ fetch_file = Absent
    /\ fetch_writes = <<>>
    /\ fetch_attempts = <<>>
    /\ fetch_csv = Pending

MergeIdle ==
    /\ merge_pc = "idle"
    /\ merge_i = 0
    /\ merge_files = <<>>
    /\ dfs = <<>>
    /\ merge_warned = <<>>
    /\ merge_exc = "none"
    /\ historic_out = Absent
    /\ input_2025 = Absent
    /\ output_2025 = Absent

HistIdle ==
    /\ hist_pc = "idle"
    /\ hist_file = Absent
    /\ hist_df = Pending
    /\ hist_out = Absent
    /\ hist_ret = Pending
    /\ hist_exc = "none"

DashIdle ==
    /\ dash_pc = "idle"
    /\ dash_steps = <<>>
    /\ dash_banner = "none"
    /\ dash_loaded = Pending
    /\ dash_named = Pending
    /\ dash_df = Pending
    /\ player_mapping = Pending
    /\ player_subset = Pending
    /\ league_mapping = Pending
    /\ team_info = Pending
    /\ dash_tabs = FALSE

TopIdle ==
    /\ top_pc = "idle"
    /\ top_df = Pending
    /\ selected_year = PyNone
    /\ selected_event_type = PyNone
    /\ selected_league = PyNone
    /\ filtered_df = Pending
    /\ top_players = Pending

LaterIdle ==
    /\ FetchIdle
    /\ MergeIdle
    /\ HistIdle
    /\ DashIdle
    /\ TopIdle

CleanInit ==
    /\ StdIdle
    /\ ScrapeIdle
    /\ LaterIdle
    /\ value \in CellValues
    /\ cfg_result = Pending
    /\ main_result = Pending
    /\ upd_result = Pending
    /\ recleaned = Pending

\* standardize_dataframe's apply(clean_player_number) on one cell
CleanConfig ==
    /\ cfg_result = Pending
    /\ cfg_result' = config_clean_player_number(value)
    /\ UNCHANGED <<value, main_result, upd_result, recleaned>>
    /\ UNCHANGED <<stdVars, updVars, exVars>>
    /\ UNCHANGED laterVars

\* main.py's apply(clean_player_number) on the raw cell
CleanMain ==
    /\ main_result = Pending
    /\ main_result' = main_clean_player_number(value)
    /\ UNCHANGED <<value, cfg_result, upd_result, recleaned>>
    /\ UNCHANGED <<stdVars, updVars, exVars>>
    /\ UNCHANGED laterVars

\* update_2025_stats.clean_player_number on the raw cell
CleanUpdate ==
    /\ upd_result = Pending
    /\ upd_result' = update_clean_player_number(value)
    /\ UNCHANGED <<value, cfg_result, main_result, recleaned>>
    /\ UNCHANGED <<stdVars, updVars, exVars>>
    /\ UNCHANGED laterVars

\* main.py cleans the already standardized Player Number a second time
Reclean ==
    /\ cfg_result # Pending
    /\ recleaned = Pending
    /\ recleaned' = config_clean_player_number(cfg_result)
    /\ UNCHANGED <<value, cfg_result, main_result, upd_result>>
    /\ UNCHANGED <<stdVars, updVars, exVars>>
    /\ UNCHANGED laterVars

CleanNext == CleanConfig \/ CleanMain \/ CleanUpdate \/ Reclean

SpecClean == CleanInit /\ [][CleanNext]_vars

\* ------------------------------------------------------------------------
\* Frames the standardization is run on
\* ------------------------------------------------------------------------
\* most rows of a generated frame
MaxRows == 2

\* the column layouts of the generated exports: German names, English
\* names, and a column ("Note") that the mapping does not know
FrameLayouts ==
    { <<"Spielernummer">>, <<"Player Number">>, <<"Anzahl">>, <<"Gegen">>, <<"Note">>,
      <<"Spielernummer", "Anzahl">>, <<"Spielernummer", "Gegen">>, <<"Spielernummer", "Note">>,
      <<"Player Number", "Anzahl">>, <<"Player Number", "Gegen">>, <<"Player Number", "Note">>,
      <<"Anzahl", "Gegen">>, <<"Anzahl", "Note">>, <<"Gegen", "Note">> }

\* cells of an object column, of an int64 column and of a float64 column,
\* as read_csv produces them
ObjectCells == {PyStr(<<"7">>), PyStr(<<"9", ".", "0">>), PyStr(<<"x">>), PyNaN}
IntCells == {PyInt(7)}
FloatCells == {PyFloat(FALSE, 7, 5), PyNaN}

ColumnsNamed(name, rows) ==
    {Column(name, "object", d) : d \in [1..rows -> ObjectCells]}
      \cup {Column(name, "int64", d) : d \in [1..rows -> IntCells]}
      \cup {Column(name, "float64", d) : d \in [1..rows -> FloatCells]}

RECURSIVE FramesNamed(_, _)
FramesNamed(names, rows) ==
    IF names = <<>> THEN {<<>>}
    ELSE {<<c>> \o rest : c \in ColumnsNamed(Head(names), rows),
                          rest \in FramesNamed(Tail(names), rows)}

\* the English name an export uses for a German column name
EnglishName(name) ==
    CASE name = "Spielernummer" -> "Player Number"
      [] name = "Anzahl" -> "Count"
      [] name = "Jahr" -> "Year"
      [] name = "Gegen" -> "Opponent"
      [] name = "Spieltag" -> "Matchday"
      [] name = "Datum" -> "Date"
      [] name = "stage" -> "Stage"
      [] name = "standing" -> "Standing"
      [] name = "scheduled" -> "Scheduled Time"
      [] name = "created_time" -> "Created Time"
      [] OTHER -> name

\* the exports of a given number of rows
GermanFrames(rows) == UNION {FramesNamed(names, rows) : names \in FrameLayouts}

\* the table holding the same rows under the English column names
EnglishTable(df) ==
    [i \in 1..Len(df) |-> Column(EnglishName(df[i].name), df[i].dtype, df[i].data)]

\* the call leaves the heap h and returns r
Returns(call, h, r) == h = call.heap /\ r = call.ret

StdInit ==
    /\ CleanIdle
    /\ ScrapeIdle
    /\ LaterIdle
    /\ \E rows \in 0..MaxRows : \E g \in GermanFrames(rows) : heap = <<g, EnglishTable(g)>>
    /\ df_before = heap
    /\ std_pc = "historic"
    /\ historic_df = Pending
    /\ current_df = Pending
    /\ plain_df = Pending

\* main.py: historic_df = standardize_dataframe(historic_df, is_german=True)
StandardizeHistoric ==
    /\ std_pc = "historic"
    /\ Returns(standardize_dataframe(heap, 1, TRUE), heap', historic_df')
    /\ std_pc' = "current"
    /\ UNCHANGED <<df_before, current_df, plain_df>>
    /\ UNCHANGED <<cleanVars, updVars, exVars>>
    /\ UNCHANGED laterVars

\* main.py: current_df = standardize_dataframe(current_df, is_german=False)
StandardizeCurrent ==
    /\ std_pc = "current"
    /\ Returns(standardize_dataframe(heap, 2, FALSE), heap', current_df')
    /\ std_pc' = "plain"
    /\ UNCHANGED <<df_before, historic_df, plain_df>>
    /\ UNCHANGED <<cleanVars, updVars, exVars>>
    /\ UNCHANGED laterVars

\* standardize_dataframe(df, is_german=False) on the German-named export
StandardizePlain ==
    /\ std_pc = "plain"
    /\ Returns(standardize_dataframe(heap, 1, FALSE), heap', plain_df')
    /\ std_pc' = "done"
    /\ UNCHANGED <<df_before, historic_df, current_df>>
    /\ UNCHANGED <<cleanVars, updVars, exVars>>
    /\ UNCHANGED laterVars

StdNext == StandardizeHistoric \/ StandardizeCurrent \/ StandardizePlain

SpecStd == StdInit /\ [][StdNext]_vars

\* ------------------------------------------------------------------------
\* The scraper: update_2025_data and its calls of extract_table_data
\* ------------------------------------------------------------------------
\* year_filter='2025'
YearFilter == <<"2", "0", "2", "5">>

\* the column layouts of the tables on the page
PageLayouts == {<<"Jahr", "Anzahl">>, <<"Datum">>, <<"Team">>}

\* the cell texts of a column of the page
PageCells(name) ==
    CASE name = "Jahr" -> {PyStr(YearFilter), PyStr(<<"2", "0", "2", "4">>)}
      [] name = "Anzahl" -> {PyStr(<<"7">>), PyStr(<<"x">>)}
      [] name = "Datum" -> {PyStr(<<"1", ".", "5", ".", "2", "0", "2", "5">>),
                            PyStr(<<"3", ".", "9", ".", "2", "0", "2", "4">>)}
      [] OTHER -> {PyStr(<<"x">>)}

RECURSIVE TablesNamed(_, _)
TablesNamed(names, rows) ==
    IF names = <<>> THEN {<<>>}
    ELSE {<<Column(Head(names), "object", d)>> \o rest :
              d \in [1..rows -> PageCells(Head(names))],
              rest \in TablesNamed(Tail(names), rows)}

\* the tables of text cells the page can show, as the export or the DOM give them
PageTables == UNION {TablesNamed(names, rows) : names \in PageLayouts, rows \in 0..MaxRows}

ScrapeInit ==
    /\ CleanIdle
    /\ StdIdle
    /\ LaterIdle
    /\ pc = "launch"
    /\ ret = Pending
    /\ exc = "none"
    /\ failed_at = "none"
    /\ browser = "none"
    /\ main_stats_df = Pending
    /\ detail_stats_df = Pending
    /\ main_file = Pending
    /\ detail_file = Pending
    /\ ex_table = "none"
    /\ ex_result = Pending
    /\ attempts = <<>>
    /\ api_outcome = "none"

\* an exception of the given kind leaves the statement at pc
Raising(kind) ==
    /\ pc' = "except"
    /\ exc' = kind
    /\ failed_at' = pc

\* lines 467-500: start Playwright, launch the browser, open a page
Launch ==
    /\ pc = "launch"
    /\ \E ok \in BOOLEAN :
          IF ok
          THEN pc' = "navigate" /\ browser' = "open" /\ UNCHANGED <<exc, failed_at>>
          ELSE Raising("Error") /\ UNCHANGED browser
    /\ UNCHANGED <<ret, main_stats_df, detail_stats_df, main_file, detail_file>>
    /\ UNCHANGED <<cleanVars, stdVars, exVars>>
    /\ UNCHANGED laterVars

\* lines 502-512: page.goto, then handle_cookie_banner (which never raises)
Navigate ==
    /\ pc = "navigate"
    /\ \E ok \in BOOLEAN :
          IF ok THEN pc' = "find_main" /\ UNCHANGED <<exc, failed_at>> ELSE Raising("Error")
    /\ UNCHANGED <<ret, browser, main_stats_df, detail_stats_df, main_file, detail_file>>
    /\ UNCHANGED <<cleanVars, stdVars, exVars>>
    /\ UNCHANGED laterVars

\* lines 517-523: wait_for_selector("#table_1"); the timeout is re-raised
FindMainTable ==
    /\ pc = "find_main"
    /\ \E found \in BOOLEAN :
          IF found
          THEN pc' = "wait_main" /\ UNCHANGED <<exc, failed_at>>
          ELSE Raising("PlaywrightTimeoutError")
    /\ UNCHANGED <<ret, browser, main_stats_df, detail_stats_df, main_file, detail_file>>
    /\ UNCHANGED <<cleanVars, stdVars, exVars>>
    /\ UNCHANGED laterVars

\* lines 525-528: wait_for_table_data returned False
WaitMainData ==
    /\ pc = "wait_main"
    /\ \E loaded \in BOOLEAN :
          IF loaded
          THEN pc' = "prepare_main" /\ UNCHANGED <<exc, failed_at>>
          ELSE Raising("Exception")
    /\ UNCHANGED <<ret, browser, main_stats_df, detail_stats_df, main_file, detail_file>>
    /\ UNCHANGED <<cleanVars, stdVars, exVars>>
    /\ UNCHANGED laterVars

\* lines 530-595: show all rows, set the year filter, wait; every error
\* of these steps is caught and logged
PrepareMain ==
    /\ pc = "prepare_main"
    /\ pc' = "extract_main"
    /\ UNCHANGED <<ret, exc, failed_at, browser, main_stats_df, detail_stats_df,
                   main_file, detail_file>>
    /\ UNCHANGED <<cleanVars, stdVars, exVars>>
    /\ UNCHANGED laterVars

\* extract_table_data(page, table_id, ...) is entered
EnterExtract(table_id) ==
    /\ pc' = "api"
    /\ ex_table' = table_id
    /\ ex_result' = Pending
    /\ attempts' = <<>>
    /\ api_outcome' = "none"

\* line 598: main_stats_df = extract_table_data(page, 'table_1', ...)
ExtractMain ==
    /\ pc = "extract_main"
    /\ EnterExtract("table_1")
    /\ UNCHANGED <<ret, exc, failed_at, browser, main_stats_df, detail_stats_df,
                   main_file, detail_file>>
    /\ UNCHANGED <<cleanVars, stdVars>>
    /\ UNCHANGED laterVars

\* extract_table_data returns result to the statement that called it
ExtractReturns(result) ==
    /\ ex_result' = result
    /\ IF ex_table = "table_1"
       THEN main_stats_df' = result /\ pc' = "check_main" /\ UNCHANGED detail_stats_df
       ELSE detail_stats_df' = result /\ pc' = "finish" /\ UNCHANGED main_stats_df

\* df.to_csv(output_file, index=False)
WriteOutput(df) ==
    IF ex_table = "table_1"
    THEN main_file' = FrameVal(df) /\ UNCHANGED detail_file
    ELSE detail_file' = FrameVal(df) /\ UNCHANGED main_file

ApiStep(o) ==
    /\ attempts' = Append(attempts, "api")
    /\ api_outcome' = o.outcome
    /\ IF AfterApi(o.outcome) = "return"
       THEN ExtractReturns(FrameVal(o.df)) /\ WriteOutput(o.df)
       ELSE /\ pc' = "dom"
            /\ UNCHANGED <<ex_result, main_stats_df, detail_stats_df, main_file, detail_file>>

\* lines 192-262, Method 1: the DataTables API export
Method1 ==
    /\ pc = "api"
    /\ \E csv_data \in {Raise, PyNone, BadCsv} \cup {FrameVal(t) : t \in PageTables} :
          ApiStep(Method1Outcome(csv_data, YearFilter))
    /\ UNCHANGED <<ret, exc, failed_at, browser, ex_table>>
    /\ UNCHANGED <<cleanVars, stdVars>>
    /\ UNCHANGED laterVars

DomStep(o) ==
    /\ attempts' = Append(attempts, "dom")
    /\ IF o.outcome = "returned"
       THEN ExtractReturns(FrameVal(o.df)) /\ WriteOutput(o.df)
       ELSE /\ pc' = "fail"
            /\ UNCHANGED <<ex_result, main_stats_df, detail_stats_df, main_file, detail_file>>

\* lines 264-459, Method 2: the rows read from the DOM
Method2 ==
    /\ pc = "dom"
    /\ \E all_data \in {Raise} \cup {FrameVal(t) : t \in PageTables} :
          DomStep(Method2Outcome(all_data, YearFilter))
    /\ UNCHANGED <<ret, exc, failed_at, browser, ex_table, api_outcome>>
    /\ UNCHANGED <<cleanVars, stdVars>>
    /\ UNCHANGED laterVars

\* lines 461-462: all methods failed, return None
ExtractFail ==
    /\ pc = "fail"
    /\ ExtractReturns(PyNone)
    /\ UNCHANGED <<ret, exc, failed_at, browser, main_file, detail_file>>
    /\ UNCHANGED <<ex_table, attempts, api_outcome>>
    /\ UNCHANGED <<cleanVars, stdVars>>
    /\ UNCHANGED laterVars

\* main_stats_df is None or main_stats_df.empty
NoFrame(df) == df = PyNone \/ IsEmpty(df.df)

\* lines 600-604
CheckMain ==
    /\ pc = "check_main"
    /\ IF NoFrame(main_stats_df)
       THEN Raising("Exception")
       ELSE pc' = "find_detail" /\ UNCHANGED <<exc, failed_at>>
    /\ UNCHANGED <<ret, browser, main_stats_df, detail_stats_df, main_file, detail_file>>
    /\ UNCHANGED <<cleanVars, stdVars, exVars>>
    /\ UNCHANGED laterVars

\* browser.close() followed by a return of the given value
CloseAndReturn(result) ==
    \E closed \in BOOLEAN :
        IF closed
        THEN /\ browser' = "closed"
             /\ ret' = result
             /\ pc' = "done"
             /\ UNCHANGED <<exc, failed_at>>
        ELSE Raising("Error") /\ UNCHANGED <<browser, ret>>

\* lines 609-618: wait_for_selector("#table_2"); on the timeout the browser
\* is closed and a bare return leaves the function
FindDetailTable ==
    /\ pc = "find_detail"
    /\ \E outcome \in {"found", "timeout", "error"} :
          CASE outcome = "found" ->
                 pc' = "prepare_detail" /\ UNCHANGED <<exc, failed_at, browser, ret>>
            [] outcome = "timeout" -> CloseAndReturn(PyNone)
            [] outcome = "error" -> Raising("Error") /\ UNCHANGED <<browser, ret>>
    /\ UNCHANGED <<main_stats_df, detail_stats_df, main_file, detail_file>>
    /\ UNCHANGED <<cleanVars, stdVars, exVars>>
    /\ UNCHANGED laterVars

\* lines 620-764: filter the detail table and show all rows; every error of
\* these steps is caught and logged
PrepareDetail ==
    /\ pc = "prepare_detail"
    /\ pc' = "extract_detail"
    /\ UNCHANGED <<ret, exc, failed_at, browser, main_stats_df, detail_stats_df,
                   main_file, detail_file>>
    /\ UNCHANGED <<cleanVars, stdVars, exVars>>
    /\ UNCHANGED laterVars

\* lines 936 and 940: fall back to extract_table_data(page, 'table_2', ...)
DetailFallback ==
    /\ EnterExtract("table_2")
    /\ UNCHANGED <<detail_stats_df, detail_file>>

\* lines 927-932: standardize the filtered rows and save them
DetailWrite(detail_df, processed) ==
    IF processed = Raise THEN DetailFallback
    ELSE /\ detail_stats_df' = FrameVal(detail_df)
         /\ detail_file' = processed
         /\ pc' = "finish"
         /\ UNCHANGED exVars

DetailSave(detail_df) == DetailWrite(detail_df, Standardized(detail_df, TRUE))

\* lines 919-925: keep the rows whose first year column contains '2025'
DetailFiltered(df, year_col) ==
    IF year_col # 0 THEN FilterByYear(df, year_col, YearFilter) ELSE df

\* lines 770-940 for the rows all_data the page gave (Raise when a step of
\* the try block raised)
DetailStep(all_data) ==
    IF all_data = Raise \/ NumRows(all_data.df) = 0 THEN DetailFallback
    ELSE DetailSave(DetailFiltered(all_data.df, FirstYearColumn(all_data.df, 1)))

ExtractDetail ==
    /\ pc = "extract_detail"
    /\ \E all_data \in {Raise} \cup {FrameVal(t) : t \in PageTables} : DetailStep(all_data)
    /\ UNCHANGED <<ret, exc, failed_at, browser, main_stats_df, main_file>>
    /\ UNCHANGED <<cleanVars, stdVars>>
    /\ UNCHANGED laterVars

\* lines 942-952: close the browser and return True
Finish ==
    /\ pc = "finish"
    /\ CloseAndReturn(PyTrue)
    /\ UNCHANGED <<main_stats_df, detail_stats_df, main_file, detail_file>>
    /\ UNCHANGED <<cleanVars, stdVars, exVars>>
    /\ UNCHANGED laterVars

\* lines 953-956: except Exception: log, return False
Handler ==
    /\ pc = "except"
    /\ IF IsException(exc)
       THEN ret' = PyFalse /\ pc' = "done"
       ELSE ret' = ret /\ pc' = "propagated"
    /\ UNCHANGED <<exc, failed_at, browser, main_stats_df, detail_stats_df,
                   main_file, detail_file>>
    /\ UNCHANGED <<cleanVars, stdVars, exVars>>
    /\ UNCHANGED laterVars

ScrapeNext ==
    \/ Launch \/ Navigate \/ FindMainTable \/ WaitMainData \/ PrepareMain
    \/ ExtractMain \/ Method1 \/ Method2 \/ ExtractFail \/ CheckMain
    \/ FindDetailTable \/ PrepareDetail \/ ExtractDetail \/ Finish \/ Handler

SpecScrape == ScrapeInit /\ [][ScrapeNext]_vars

\* ------------------------------------------------------------------------
\* fetch_csv.py: fetch_dffl_csv
\* ------------------------------------------------------------------------
\* longest text the DataTables API export gives
MaxCsvLen == 2

\* bool(v) of a text or None
Truthy(v) == v # PyNone /\ v.s # <<>>

\* bytes as a Python value
PyBytes(b) == [t |-> "bytes", b |-> b]

\* the value of a character of the base64 alphabet
B64Val(c) ==
    CASE c = "A" -> 0 [] c = "B" -> 1 [] c = "E" -> 4 [] c = "F" -> 5
      [] c = "Q" -> 16 [] c = "U" -> 20

\* the bytes one group of four characters encodes
B64Group(g) ==
    IF g[3] = "=" THEN <<B64Val(g[1]) * 4 + B64Val(g[2]) \div 16>>
    ELSE IF g[4] = "="
    THEN <<B64Val(g[1]) * 4 + B64Val(g[2]) \div 16,
           (B64Val(g[2]) % 16) * 16 + B64Val(g[3]) \div 4>>
    ELSE <<B64Val(g[1]) * 4 + B64Val(g[2]) \div 16,
           (B64Val(g[2]) % 16) * 16 + B64Val(g[3]) \div 4,
           (B64Val(g[3]) % 4) * 64 + B64Val(g[4])>>

\* base64.b64decode raises binascii.Error on incorrect padding
B64Padded(s) == Len(s) % 4 = 0

\* base64.b64decode(s) of a correctly padded text
RECURSIVE B64Decode(_)
B64Decode(s) ==
    IF s = <<>> THEN <<>>
    ELSE B64Group(SubSeq(s, 1, 4)) \o B64Decode(SubSeq(s, 5, Len(s)))

\* position of the first "," of s from i on, or 0
RECURSIVE CommaPos(_, _)
CommaPos(s, i) ==
    IF i > Len(s) THEN 0
    ELSE IF s[i] = "," THEN i
    ELSE CommaPos(s, i + 1)

\* s up to its first ",", or all of s
UpToComma(s) == IF CommaPos(s, 1) = 0 THEN s ELSE SubSeq(s, 1, CommaPos(s, 1) - 1)

\* blob_data.split(",")[1], for a text that holds a ","
SecondPart(s) == UpToComma(SubSeq(s, CommaPos(s, 1) + 1, Len(s)))

\* the head of the data URL the FileReader builds
DataUrlHead == <<"d", "a", "t", "a", ":", "t", "e", "x", "t", "/", "c", "s", "v",
                 ";", "b", "a", "s", "e", "6", "4">>

\* base64 texts the page can give: nothing, "A", "AA", "AAA", and two cut short
Payloads ==
    {<<>>, <<"Q", "Q", "=", "=">>, <<"Q", "U", "E", "=">>, <<"Q", "U", "F", "B">>,
     <<"Q", "Q", "=">>, <<"Q">>}

\* window.capturedBlobData: undefined, or the data URL of the Blob
BlobValues ==
    {PyNone, PyStr(<<>>), PyStr(<<"d", "a", "t", "a", ":">>)}
      \cup {PyStr(DataUrlHead \o <<",">> \o p) : p \in Payloads}

\* page.evaluate of the DataTables export: it raised, gave null, or a text
CsvValues == {Raise, PyNone} \cup {PyStr(s) : s \in Texts(MaxCsvLen)}

\* lines 113-120: how the capture of the Blob ends
BlobOutcome(blob_data) ==
    IF ~Truthy(blob_data) THEN "no_blob"
    ELSE IF CommaPos(blob_data.s, 1) = 0 THEN "index_error"
    ELSE IF ~B64Padded(SecondPart(blob_data.s)) THEN "bad_base64"
    ELSE "written"

\* lines 116-117: dffl_stats.csv is opened for writing before the decoding
BlobFile(blob_data, old_file) ==
    CASE BlobOutcome(blob_data) = "written" -> PyBytes(B64Decode(SecondPart(blob_data.s)))
      [] BlobOutcome(blob_data) = "bad_base64" -> PyBytes(<<>>)
      [] OTHER -> old_file

\* a slip of the fallback: the failure is swallowed
AfterBlob_Swallow(outcome) == "close"

\* where fetch_dffl_csv continues after the Blob capture
AfterBlob(outcome) == IF outcome = "written" THEN "close" ELSE "except"

FetchInit ==
    /\ CleanIdle
    /\ StdIdle
    /\ ScrapeIdle
    /\ MergeIdle
    /\ HistIdle
    /\ DashIdle
    /\ TopIdle
    /\ fetch_pc = "start"
    /\ fetch_ret = Pending
    /\ fetch_exc = "none"
    /\ fetch_file \in {Absent, PyStr(<<"x">>)}
    /\ fetch_writes = <<>>
    /\ fetch_attempts = <<>>
    /\ fetch_csv = Pending

\* an exception leaves the statement for the reason given
FetchRaising(reason) ==
    /\ fetch_pc' = "except"
    /\ fetch_exc' = reason

\* lines 9-34: launch, navigate, show all rows, wait for the table
FetchStart ==
    /\ fetch_pc = "start"
    /\ \E ok \in BOOLEAN :
          IF ok THEN fetch_pc' = "api" /\ UNCHANGED fetch_exc ELSE FetchRaising("error")
    /\ UNCHANGED <<fetch_ret, fetch_file, fetch_writes, fetch_attempts, fetch_csv>>
    /\ UNCHANGED outsideFetch

FetchApiStep(csv_data) ==
    /\ fetch_csv' = csv_data
    /\ fetch_attempts' = Append(fetch_attempts, "api")
    /\ IF csv_data = Raise
       THEN FetchRaising("error") /\ UNCHANGED <<fetch_file, fetch_writes>>
       ELSE IF Truthy(csv_data)
       THEN /\ fetch_file' = csv_data
            /\ fetch_writes' = Append(fetch_writes, "api")
            /\ fetch_pc' = "close"
            /\ UNCHANGED fetch_exc
       ELSE /\ fetch_pc' = "button"
            /\ UNCHANGED <<fetch_exc, fetch_file, fetch_writes>>

\* lines 36-69, approach 1: the DataTables API
FetchApi ==
    /\ fetch_pc = "api"
    /\ \E csv_data \in CsvValues : FetchApiStep(csv_data)
    /\ UNCHANGED fetch_ret
    /\ UNCHANGED outsideFetch

\* lines 70-100, approach 2: inject the capture script, find the export button
FetchButton ==
    /\ fetch_pc = "button"
    /\ fetch_attempts' = Append(fetch_attempts, "blob")
    /\ \E found \in {"ready", "error", "button_disabled", "button_hidden"} :
          IF found = "ready"
          THEN fetch_pc' = "capture" /\ UNCHANGED fetch_exc
          ELSE FetchRaising(found)
    /\ UNCHANGED <<fetch_ret, fetch_file, fetch_writes, fetch_csv>>
    /\ UNCHANGED outsideFetch

FetchCaptureStep(blob_data) ==
    /\ fetch_file' = BlobFile(blob_data, fetch_file)
    /\ fetch_writes' = IF BlobOutcome(blob_data) = "written"
                       THEN Append(fetch_writes, "blob")
                       ELSE fetch_writes
    /\ IF AfterBlob(BlobOutcome(blob_data)) = "close"
       THEN fetch_pc' = "close" /\ UNCHANGED fetch_exc
       ELSE FetchRaising(BlobOutcome(blob_data))

\* lines 102-120: click the button, wait, read and save the captured Blob
FetchCapture ==
    /\ fetch_pc = "capture"
    /\ \E clicked \in BOOLEAN :
          IF clicked
          THEN \E blob_data \in BlobValues : FetchCaptureStep(blob_data)
          ELSE FetchRaising("error") /\ UNCHANGED <<fetch_file, fetch_writes>>
    /\ UNCHANGED <<fetch_ret, fetch_attempts, fetch_csv>>
    /\ UNCHANGED outsideFetch

\* lines 122-125: close the browser and return the path
FetchClose ==
    /\ fetch_pc = "close"
    /\ \E closed \in BOOLEAN :
          IF closed
          THEN /\ fetch_ret' = PyStr(<<"dffl_stats.csv">>)
               /\ fetch_pc' = "done"
               /\ UNCHANGED fetch_exc
          ELSE FetchRaising("error") /\ UNCHANGED fetch_ret
    /\ UNCHANGED <<fetch_file, fetch_writes, fetch_attempts, fetch_csv>>
    /\ UNCHANGED outsideFetch

\* lines 126-128: except Exception: print, raise
FetchExcept ==
    /\ fetch_pc = "except"
    /\ fetch_pc' = "raised"
    /\ UNCHANGED <<fetch_ret, fetch_exc, fetch_file, fetch_writes, fetch_attempts,
                   fetch_csv>>
    /\ UNCHANGED outsideFetch

FetchNext ==
    \/ FetchStart \/ FetchApi \/ FetchButton \/ FetchCapture \/ FetchClose
    \/ FetchExcept

SpecFetch == FetchInit /\ [][FetchNext]_vars

\* ------------------------------------------------------------------------
\* merge_detailed_stats.py: merge_historic_files and prepare_2025_file
\* ------------------------------------------------------------------------
\* most rows of an input file
MaxFileRows == 1

\* the exports of 2022, 2023 and 2024, newest last
historic_files_OldestFirst ==
    <<"Player Stats_detail (3).csv", "Player Stats_detail (2).csv",
      "Player Stats_detail (1).csv">>

\* historic_files, lines 10-14: 2024, 2023, 2022
historic_files ==
    <<"Player Stats_detail (1).csv", "Player Stats_detail (2).csv",
      "Player Stats_detail (3).csv">>

\* index of the column of df named name, or 0
RECURSIVE ColumnIndex(_, _, _)
ColumnIndex(df, name, i) ==
    IF i > Len(df) THEN 0
    ELSE IF df[i].name = name THEN i
    ELSE ColumnIndex(df, name, i + 1)

\* names with the column names of df it does not hold yet, in df's order
RECURSIVE AddNames(_, _, _)
AddNames(names, df, i) ==
    IF i > Len(df) THEN names
    ELSE IF \E j \in 1..Len(names) : names[j] = df[i].name THEN AddNames(names, df, i + 1)
    ELSE AddNames(Append(names, df[i].name), df, i + 1)

\* the columns of the concatenation: the union, in order of first appearance
RECURSIVE ConcatNames(_, _)
ConcatNames(frames, names) ==
    IF frames = <<>> THEN names
    ELSE ConcatNames(Tail(frames), AddNames(names, Head(frames), 1))

\* the dtype of the concatenated column: int64 when every frame holds it as
\* int64, float64 when the other frames lack it, object otherwise
ConcatDtype(frames, name) ==
    IF \A f \in 1..Len(frames) :
           /\ ColumnIndex(frames[f], name, 1) # 0
           /\ frames[f][ColumnIndex(frames[f], name, 1)].dtype = "int64"
    THEN "int64"
    ELSE IF \A f \in 1..Len(frames) :
                ColumnIndex(frames[f], name, 1) # 0 =>
                    frames[f][ColumnIndex(frames[f], name, 1)].dtype = "int64"
    THEN "float64"
    ELSE "object"

\* a cell of an int64 column in a column of the given dtype
Upcast(v, dtype) ==
    IF dtype = "float64" /\ v.t = "int" THEN PyFloat(v.neg, v.lo, 0) ELSE v

\* the cells one frame gives to the concatenated column: its own, or NaN
ConcatCells(df, i, dtype) ==
    IF i = 0 THEN [k \in 1..NumRows(df) |-> PyNaN]
    ELSE [k \in 1..NumRows(df) |-> Upcast(df[i].data[k], dtype)]

RECURSIVE ConcatData(_, _, _)
ConcatData(frames, name, dtype) ==
    IF frames = <<>> THEN <<>>
    ELSE ConcatCells(Head(frames), ColumnIndex(Head(frames), name, 1), dtype)
           \o ConcatData(Tail(frames), name, dtype)

ConcatColumns(frames, names) ==
    [j \in 1..Len(names) |->
        Column(names[j], ConcatDtype(frames, names[j]),
               ConcatData(frames, names[j], ConcatDtype(frames, names[j])))]

\* pd.concat(dfs, ignore_index=True): ValueError for an empty list
Concat(frames) ==
    IF frames = <<>> THEN Raise
    ELSE FrameVal(ConcatColumns(frames, ConcatNames(frames, <<>>)))

\* the text to_csv writes for a cell: nothing for a missing value
CsvCell(v) == IF IsNA(v) THEN PyStr(<<>>) ELSE PyStr(PyStrOf(v))

\* df.to_csv(output_file, index=False): the file as a table of text
ToCsv(df) ==
    [i \in 1..Len(df) |->
        Column(df[i].name, "object", [k \in 1..Len(df[i].data) |-> CsvCell(df[i].data[k])])]

\* the column layouts of the input files
FileLayouts == {<<"Anzahl">>, <<"Team">>, <<"Team", "Anzahl">>}

FileCells(name) ==
    IF name = "Anzahl" THEN {PyStr(<<"7">>), PyStr(<<"x">>)} ELSE {PyStr(<<"x">>)}

RECURSIVE FileTablesNamed(_, _)
FileTablesNamed(names, rows) ==
    IF names = <<>> THEN {<<>>}
    ELSE {<<Column(Head(names), "object", d)>> \o rest :
              d \in [1..rows -> FileCells(Head(names))],
              rest \in FileTablesNamed(Tail(names), rows)}

\* what can be on disk under an input name: nothing, or a CSV export
InputFiles(rows) ==
    {Absent} \cup {FrameVal(t) : t \in UNION {FileTablesNamed(names, r) :
                                              names \in FileLayouts, r \in 0..rows}}

\* an output file left by an earlier run
OldOutput == FrameVal(<<Column("Team", "object", <<PyStr(<<"o", "l", "d">>)>>)>>)

\* a slip of the guard before the concatenation: it never returns early
NothingToMerge_Never(frames) == FALSE

\* if not dfs
NothingToMerge(frames) == frames = <<>>

MergeInit ==
    /\ CleanIdle
    /\ StdIdle
    /\ ScrapeIdle
    /\ FetchIdle
    /\ HistIdle
    /\ DashIdle
    /\ TopIdle
    /\ merge_pc = "load"
    /\ merge_i = 1
    /\ merge_files \in [{historic_files[i] : i \in 1..3} -> InputFiles(MaxFileRows)]
    /\ dfs = <<>>
    /\ merge_warned = <<>>
    /\ merge_exc = "none"
    /\ historic_out \in {Absent, OldOutput}
    /\ input_2025 = Pending
    /\ output_2025 \in {Absent, OldOutput}

\* lines 20-26, one round of the loop over historic_files
LoadHistoric ==
    /\ merge_pc = "load"
    /\ IF merge_files[historic_files[merge_i]] # Absent
       THEN /\ dfs' = Append(dfs, ReadCsv(merge_files[historic_files[merge_i]].df))
            /\ UNCHANGED merge_warned
       ELSE /\ merge_warned' = Append(merge_warned, historic_files[merge_i])
            /\ UNCHANGED dfs
    /\ IF merge_i < Len(historic_files)
       THEN merge_i' = merge_i + 1 /\ UNCHANGED merge_pc
       ELSE merge_pc' = "merge" /\ UNCHANGED merge_i
    /\ UNCHANGED <<merge_files, merge_exc, historic_out, input_2025, output_2025>>
    /\ UNCHANGED outsideMerge

\* lines 32-40: concatenate, save
SaveMerged(merged_df) ==
    IF merged_df = Raise
    THEN merge_pc' = "raised" /\ merge_exc' = "ValueError" /\ UNCHANGED historic_out
    ELSE /\ historic_out' = FrameVal(ToCsv(merged_df.df))
         /\ merge_pc' = "prepare"
         /\ UNCHANGED merge_exc

\* lines 28-40 of merge_historic_files
MergeHistoric ==
    /\ merge_pc = "merge"
    /\ IF NothingToMerge(dfs)
       THEN merge_pc' = "prepare" /\ UNCHANGED <<merge_exc, historic_out>>
       ELSE SaveMerged(Concat(dfs))
    /\ UNCHANGED <<merge_i, merge_files, dfs, merge_warned, input_2025, output_2025>>
    /\ UNCHANGED outsideMerge

\* lines 42-54, prepare_2025_file for what is on disk as 'Player Stats_detail.csv'
Prepare2025 ==
    /\ merge_pc = "prepare"
    /\ \E file \in InputFiles(MaxFileRows) :
          /\ input_2025' = file
          /\ IF file # Absent
             THEN output_2025' = FrameVal(ToCsv(ReadCsv(file.df))) /\ UNCHANGED merge_warned
             ELSE /\ merge_warned' = Append(merge_warned, "Player Stats_detail.csv")
                  /\ UNCHANGED output_2025
    /\ merge_pc' = "done"
    /\ UNCHANGED <<merge_i, merge_files, dfs, merge_exc, historic_out>>
    /\ UNCHANGED outsideMerge

MergeNext == LoadHistoric \/ MergeHistoric \/ Prepare2025

SpecMerge == MergeInit /\ [][MergeNext]_vars

\* ------------------------------------------------------------------------
\* update_historic_stats.py: update_historic_data
\* ------------------------------------------------------------------------
\* most rows of dffl_stats.csv
MaxHistRows == 2

\* the first year that is not historic
FirstCurrentYear == 2025

\* read_csv with dtype=EXPECTED_COLUMNS: a column named in it is converted to
\* its type (Raise when a cell cannot be), any other column is inferred
ReadColumnTyped(c) ==
    IF c.name \in DOMAIN EXPECTED_COLUMNS THEN AstypeColumn(c) ELSE InferColumn(c)

\* pd.read_csv("dffl_stats.csv", dtype=EXPECTED_COLUMNS)
ReadCsvTyped(file) ==
    IF file = Absent THEN Raise
    ELSE IF \E i \in 1..Len(file.df) : ReadColumnTyped(file.df[i]) = Raise THEN Raise
    ELSE FrameVal([i \in 1..Len(file.df) |-> ReadColumnTyped(file.df[i])])

\* a slip of the comparison: the year 2025 counts as historic
YearBefore_Inclusive(v, year) == v.neg \/ (v.hi = 0 /\ v.lo <= year)

\* v < year for a cell of the int64 column Year
YearBefore(v, year) == v.neg \/ (v.hi = 0 /\ v.lo < year)

\* df['Year'] < 2025, row by row
HistoricMask(c) == [k \in 1..Len(c.data) |-> YearBefore(c.data[k], FirstCurrentYear)]

\* df[df['Year'] < 2025].copy(): KeyError when there is no column Year
HistoricRows(df) ==
    IF ~HasColumn(df, "Year") THEN Raise
    ELSE FrameVal(FilterFrame(df, HistoricMask(df[ColumnIndex(df, "Year", 1)])))

\* the column layouts of dffl_stats.csv
HistLayouts == {<<"Jahr">>, <<"Jahr", "Anzahl">>, <<"Year">>, <<"Team">>}

HistCells(name) ==
    CASE name \in {"Jahr", "Year"} ->
             {PyStr(<<"2", "0", "2", "4">>), PyStr(<<"2", "0", "2", "5">>), PyStr(<<"x">>)}
      [] name = "Anzahl" -> {PyStr(<<"7">>), PyStr(<<"x">>)}
      [] OTHER -> {PyStr(<<"x">>)}

RECURSIVE HistTablesNamed(_, _)
HistTablesNamed(names, rows) ==
    IF names = <<>> THEN {<<>>}
    ELSE {<<Column(Head(names), "object", d)>> \o rest :
              d \in [1..rows -> HistCells(Head(names))],
              rest \in HistTablesNamed(Tail(names), rows)}

\* what can be on disk as dffl_stats.csv
HistFiles(rows) ==
    {Absent} \cup {FrameVal(t) : t \in UNION {HistTablesNamed(names, r) :
                                              names \in HistLayouts, r \in 0..rows}}

HistInit ==
    /\ CleanIdle
    /\ StdIdle
    /\ ScrapeIdle
    /\ FetchIdle
    /\ MergeIdle
    /\ DashIdle
    /\ TopIdle
    /\ hist_pc = "read"
    /\ hist_file \in HistFiles(MaxHistRows)
    /\ hist_df = Pending
    /\ hist_out \in {Absent, OldOutput}
    /\ hist_ret = Pending
    /\ hist_exc = "none"

\* the statement raised: df keeps its value, control goes to the handler
HistRaising(reason) ==
    /\ hist_pc' = "except"
    /\ hist_exc' = reason
    /\ UNCHANGED hist_df

\* the statement gave df the value result
HistAssign(result, next, reason) ==
    IF result = Raise THEN HistRaising(reason)
    ELSE hist_df' = result /\ hist_pc' = next /\ UNCHANGED hist_exc

\* line 10
HistRead ==
    /\ hist_pc = "read"
    /\ HistAssign(ReadCsvTyped(hist_file), "standardize", "read")
    /\ UNCHANGED <<hist_file, hist_out, hist_ret>>
    /\ UNCHANGED outsideHist

\* line 13
HistStandardize ==
    /\ hist_pc = "standardize"
    /\ HistAssign(Standardized(hist_df.df, TRUE), "filter", "standardize")
    /\ UNCHANGED <<hist_file, hist_out, hist_ret>>
    /\ UNCHANGED outsideHist

\* line 16
HistFilter ==
    /\ hist_pc = "filter"
    /\ HistAssign(HistoricRows(hist_df.df), "save", "filter")
    /\ UNCHANGED <<hist_file, hist_out, hist_ret>>
    /\ UNCHANGED outsideHist

\* lines 18-25: save historic_df, return the path
HistSave ==
    /\ hist_pc = "save"
    /\ hist_out' = FrameVal(ToCsv(hist_df.df))
    /\ hist_ret' = PyStr(<<"dffl_stats_historic.csv">>)
    /\ hist_pc' = "done"
    /\ UNCHANGED <<hist_file, hist_df, hist_exc>>
    /\ UNCHANGED outsideHist

\* lines 27-29: except Exception: print, raise
HistExcept ==
    /\ hist_pc = "except"
    /\ hist_pc' = "raised"
    /\ UNCHANGED <<hist_file, hist_df, hist_out, hist_ret, hist_exc>>
    /\ UNCHANGED outsideHist

HistNext == HistRead \/ HistStandardize \/ HistFilter \/ HistSave \/ HistExcept

SpecHistoric == HistInit /\ [][HistNext]_vars

\* ------------------------------------------------------------------------
\* main.py: loading, the player-name merge and the league mapping
\* ------------------------------------------------------------------------
\* most rows of dffl_stats_historic.csv and of player_mapping.csv
MaxEventRows == 1
MaxPlayerRows == 2

\* the cell of row k in the column named name
Cell(df, name, k) == df[ColumnIndex(df, name, 1)].data[k]

\* df[name] = c
ReplaceColumn(df, name, c) == [i \in 1..Len(df) |-> IF df[i].name = name THEN c ELSE df[i]]

\* df[names]
SelectColumns(df, names) == [i \in 1..Len(names) |-> df[ColumnIndex(df, names[i], 1)]]

\* df[names] raises KeyError when a name is not a column
HasColumns(df, names) == \A i \in 1..Len(names) : HasColumn(df, names[i])

\* Series.apply(clean_player_number).astype("Int64") with main.py's definition
MainCleanColumn(c) ==
    Column(c.name, "Int64",
           [k \in 1..Len(c.data) |-> NAIfNone(main_clean_player_number(c.data[k]))])

\* lines 93-96: clean Player Number in the combined frame
StatsCleaned(df) ==
    IF ~HasColumn(df, "Player Number") THEN Raise
    ELSE FrameVal(ReplaceColumn(df, "Player Number",
                                MainCleanColumn(df[ColumnIndex(df, "Player Number", 1)])))

\* lines 85-86: df["Year"] = df["Year"].astype(int)
StatsYear(df) ==
    IF ~HasColumn(df, "Year") THEN Raise
    ELSE IF AstypeInt(df[ColumnIndex(df, "Year", 1)]) = Raise THEN Raise
    ELSE StatsCleaned(ReplaceColumn(df, "Year", AstypeInt(df[ColumnIndex(df, "Year", 1)])))

\* line 83: pd.concat([historic_df, current_df], ignore_index=True)
StatsCombined(historic, current) ==
    IF historic = Raise \/ current = Raise THEN Raise
    ELSE StatsYear(Concat(<<historic.df, current.df>>).df)

\* pd.read_csv(path) and standardize_dataframe of one stats file
StatsRead(file, is_german) ==
    IF file = Absent THEN Raise ELSE Standardized(ReadCsv(file.df), is_german)

\* lines 69-96: the combined dataset, or Raise
LoadStats(historic_file, current_file) ==
    StatsCombined(StatsRead(historic_file, TRUE), StatsRead(current_file, FALSE))

\* str(x).strip() if pd.notna(x) else ''
NamePart(v) == IF IsNA(v) THEN <<>> ELSE Strip(PyStrOf(v))

\* line 130: f"{first} {last}".strip()
FullName(first, last) == PyStr(Strip(NamePart(first) \o <<" ">> \o NamePart(last)))

\* lines 128-132: the column Name
NameColumn(pm) ==
    Column("Name", "object",
           [k \in 1..NumRows(pm) |-> FullName(Cell(pm, "First Name", k), Cell(pm, "Last Name", k))])

\* lines 124-132 for the table read: Player Number cleaned, Name appended
PlayerMappingCleaned(pm) ==
    IF ~HasColumns(pm, <<"Player Number", "First Name", "Last Name">>) THEN Raise
    ELSE FrameVal(Append(ReplaceColumn(pm, "Player Number",
                                       MainCleanColumn(pm[ColumnIndex(pm, "Player Number", 1)])),
                         NameColumn(pm)))

\* line 142: player_mapping[["Team", "Player Number", "Name"]].copy()
player_mapping_subset(pm) ==
    IF ~HasColumns(pm, <<"Team", "Player Number", "Name">>) THEN Raise
    ELSE FrameVal(SelectColumns(pm, <<"Team", "Player Number", "Name">>))

\* rows k of left and j of right agree on every key; a missing key matches
\* a missing key
KeysEqual(left, k, right, j, keys) ==
    \A i \in 1..Len(keys) :
        \/ Cell(left, keys[i], k) = Cell(right, keys[i], j)
        \/ (IsNA(Cell(left, keys[i], k)) /\ IsNA(Cell(right, keys[i], j)))

\* the rows of right that match row k of left, in order
RECURSIVE Matches(_, _, _, _, _)
Matches(left, k, right, keys, j) ==
    IF j > NumRows(right) THEN <<>>
    ELSE (IF KeysEqual(left, k, right, j, keys) THEN <<j>> ELSE <<>>)
           \o Matches(left, k, right, keys, j + 1)

\* the rows of a left merge as pairs <<left row, right row or 0>>
PairsOfRow(k, found) ==
    IF found = <<>> THEN << <<k, 0>> >> ELSE [i \in 1..Len(found) |-> <<k, found[i]>>]

RECURSIVE LeftPairs(_, _, _, _)
LeftPairs(left, right, keys, k) ==
    IF k > NumRows(left) THEN <<>>
    ELSE PairsOfRow(k, Matches(left, k, right, keys, 1)) \o LeftPairs(left, right, keys, k + 1)

\* the columns of right that are not keys
RECURSIVE OtherColumns(_, _, _)
OtherColumns(right, keys, i) ==
    IF i > Len(right) THEN <<>>
    ELSE (IF \E n \in 1..Len(keys) : keys[n] = right[i].name THEN <<>> ELSE <<right[i]>>)
           \o OtherColumns(right, keys, i + 1)

LeftCells(c, pairs) == Column(c.name, c.dtype, [p \in 1..Len(pairs) |-> c.data[pairs[p][1]]])

RightCells(c, pairs) ==
    Column(c.name, c.dtype,
           [p \in 1..Len(pairs) |-> IF pairs[p][2] = 0 THEN PyNaN ELSE c.data[pairs[p][2]]])

MergeColumns(left, others, pairs) ==
    [i \in 1..Len(left) |-> LeftCells(left[i], pairs)]
      \o [i \in 1..Len(others) |-> RightCells(others[i], pairs)]

\* left.merge(right, on=keys, how="left")
MergeLeft(left, right, keys) ==
    MergeColumns(left, OtherColumns(right, keys, 1), LeftPairs(left, right, keys, 1))

\* validate="m:1": the keys of right are unique
KeysUnique(right, keys) ==
    \A i, j \in 1..NumRows(right) : i < j => ~KeysEqual(right, i, right, j, keys)

\* a slip of the player merge: the validation is left out
MergePlayers_Unvalidated(df, subset) ==
    IF ~HasColumns(df, <<"Team", "Player Number">>) THEN Raise
    ELSE FrameVal(MergeLeft(df, subset, <<"Team", "Player Number">>))

\* lines 214-219: df.merge(player_mapping_subset, on=["Team", "Player Number"],
\* how="left", validate="m:1"); MergeError when the mapping repeats a key
MergePlayers(df, subset) ==
    IF ~HasColumns(df, <<"Team", "Player Number">>) THEN Raise
    ELSE IF ~KeysUnique(subset, <<"Team", "Player Number">>) THEN Raise
    ELSE FrameVal(MergeLeft(df, subset, <<"Team", "Player Number">>))

\* the rows of df that repeat no earlier row on the columns named
RECURSIVE FirstOccurrences(_, _, _)
FirstOccurrences(df, names, k) ==
    IF k > NumRows(df) THEN <<>>
    ELSE (IF \E e \in 1..(k - 1) : KeysEqual(df, e, df, k, names) THEN <<>> ELSE <<k>>)
           \o FirstOccurrences(df, names, k + 1)

\* the rows of df numbered by rows, in that order
TakeRows(df, rows) ==
    [i \in 1..Len(df) |->
        Column(df[i].name, df[i].dtype, [j \in 1..Len(rows) |-> df[i].data[rows[j]]])]

\* df[names].drop_duplicates()
DropDuplicates(df, names) ==
    TakeRows(SelectColumns(df, names), FirstOccurrences(df, names, 1))

\* the last year of the combined league
LastCombinedYear == 2022

\* a slip of the default: 2023 still counts as combined
DefaultLeague_Late(year) ==
    IF year.neg \/ (year.hi = 0 /\ year.lo <= LastCombinedYear + 1)
    THEN PyStr(<<"Combined">>)
    ELSE PyStr(<<"Other Leagues">>)

\* lambda x: "Combined" if x <= 2022 else "Other Leagues"
DefaultLeague(year) ==
    IF year.neg \/ (year.hi = 0 /\ year.lo <= LastCombinedYear)
    THEN PyStr(<<"Combined">>)
    ELSE PyStr(<<"Other Leagues">>)

\* lines 235-240: the team-year combinations with their default league
team_year_combinations(df) ==
    Append(DropDuplicates(df, <<"Year", "Team">>),
           Column("League", "object",
                  [k \in 1..Len(FirstOccurrences(df, <<"Year", "Team">>, 1)) |->
                      DefaultLeague(Cell(df, "Year", FirstOccurrences(df, <<"Year", "Team">>, 1)[k]))]))

\* the column League of the mapping under the suffix of the merge
DfflColumn(c) == IF c.name = "League" THEN Column("League_dffl", c.dtype, c.data) ELSE c

\* league_mapping[["Year", "Team", "League"]] with Year as int, as the right
\* side of the merge
DfflLeagues(lm) ==
    [i \in 1..3 |->
        DfflColumn(SelectColumns(ReplaceColumn(lm, "Year", AstypeInt(lm[ColumnIndex(lm, "Year", 1)])),
                                 <<"Year", "Team", "League">>)[i])]

\* line 255: League_dffl.combine_first(League)
CombineFirst(merged) ==
    Column("League", "object",
           [k \in 1..NumRows(merged) |->
               IF IsNA(Cell(merged, "League_dffl", k)) THEN Cell(merged, "League", k)
               ELSE Cell(merged, "League_dffl", k)])

\* lines 255-256
LeagueUpdated(merged) ==
    SelectColumns(ReplaceColumn(merged, "League", CombineFirst(merged)),
                  <<"Year", "Team", "League">>)

\* lines 235-256: complete_league_mapping
complete_league_mapping(df, lm) ==
    LeagueUpdated(MergeLeft(team_year_combinations(df), DfflLeagues(lm), <<"Year", "Team">>))

\* lines 244-262 raise when league_mapping lacks a column or a Year
LeagueRaises(lm) ==
    \/ ~HasColumns(lm, <<"Year", "Team", "League">>)
    \/ AstypeInt(lm[ColumnIndex(lm, "Year", 1)]) = Raise

\* lines 233-262: the combined dataset with its League column
MergeLeagues(df, lm) ==
    IF LeagueRaises(lm) THEN Raise
    ELSE FrameVal(MergeLeft(df, complete_league_mapping(df, lm), <<"Year", "Team">>))

\* lines 193: df["Team"] = df["Team"].astype(str)
TeamAsStr(df) ==
    IF ~HasColumn(df, "Team") THEN Raise
    ELSE FrameVal(ReplaceColumn(df, "Team", AstypeStr(df[ColumnIndex(df, "Team", 1)])))

\* one-character and year texts of the input tables
TeamA == PyStr(<<"A">>)
TeamB == PyStr(<<"B">>)
YearText(last) == PyStr(<<"2", "0", "2", last>>)

\* dffl_stats_historic.csv: German column names, text cells
HistoricStatsFiles(rows) ==
    {Absent} \cup
    {FrameVal(<<Column("Team", "object", team), Column("Spielernummer", "object", number),
                Column("Jahr", "object", year)>>) :
         team \in UNION {[1..r -> {TeamA, TeamB}] : r \in 0..rows},
         number \in UNION {[1..r -> {PyStr(<<"7">>), PyStr(<<"x">>)}] : r \in 0..rows},
         year \in UNION {[1..r -> {YearText("2"), YearText("3")}] : r \in 0..rows}}

\* a table whose columns have the same number of rows
WellFormed(file) == file = Absent \/ \A i \in 1..Len(file.df) : Len(file.df[i].data) = NumRows(file.df)

\* dffl_stats_2025.csv: English column names
CurrentStatsFiles ==
    {Absent,
     FrameVal(<<Column("Team", "object", <<TeamA>>),
                Column("Player Number", "object", <<PyStr(<<"7">>)>>),
                Column("Year", "object", <<YearText("5")>>)>>)}

\* the names of the players of the mapping, row by row
FirstNames == <<PyStr(<<"x">>), PyNaN, PyStr(<<" ", "1">>)>>
LastNames == <<PyStr(<<"9">>), PyStr(<<"x">>), PyStr(<<"0">>)>>

\* player_mapping.csv as read with dtype str: text cells, all of team A
PlayerTable(numbers) ==
    <<Column("Team", "object", [k \in 1..Len(numbers) |-> TeamA]),
      Column("Player Number", "object", numbers),
      Column("First Name", "object", [k \in 1..Len(numbers) |-> FirstNames[((k - 1) % 3) + 1]]),
      Column("Last Name", "object", [k \in 1..Len(numbers) |-> LastNames[((k - 1) % 3) + 1]])>>

PlayerFiles(rows) ==
    {Absent, FrameVal(<<Column("Team", "object", <<TeamA>>)>>)} \cup
    {FrameVal(PlayerTable(numbers)) :
         numbers \in UNION {[1..r -> {PyStr(<<"7">>), PyStr(<<"9">>), PyStr(<<"x">>)}] : r \in 0..rows}}

\* league_mapping.csv as read: Year, Team and a League that can be missing
LeagueTable(entries) ==
    <<Column("Year", "int64", [k \in 1..Len(entries) |-> entries[k][1]]),
      Column("Team", "object", [k \in 1..Len(entries) |-> TeamA]),
      Column("League", "object", [k \in 1..Len(entries) |-> entries[k][2]])>>

LeagueEntries ==
    {PyInt(2022), PyInt(2023)} \X {PyStr(<<"DFFL">>), PyStr(<<"DFFL2">>), PyNaN}

LeagueFiles ==
    {Absent, BadCsv, FrameVal(<<Column("Team", "object", <<TeamA>>)>>)} \cup
    {FrameVal(LeagueTable(entries)) : entries \in UNION {[1..r -> LeagueEntries] : r \in 0..2}}

\* team_info.csv
TeamInfoFiles ==
    {Absent, BadCsv,
     FrameVal(<<Column("Team", "object", <<TeamA>>), Column("LogoPath", "object", <<PyNaN>>)>>)}

DashInit ==
    /\ CleanIdle
    /\ StdIdle
    /\ ScrapeIdle
    /\ FetchIdle
    /\ MergeIdle
    /\ HistIdle
    /\ TopIdle
    /\ dash_pc = "stats"
    /\ dash_steps = <<>>
    /\ dash_banner = "none"
    /\ dash_loaded = Pending
    /\ dash_named = Pending
    /\ dash_df = Pending
    /\ player_mapping = Pending
    /\ player_subset = Pending
    /\ league_mapping = Pending
    /\ team_info = Pending
    /\ dash_tabs = FALSE

\* a slip of the error handling: the banner is shown but the script goes on
AfterBanner_NoStop(next) == next

\* st.stop() after st.error(...): the script run ends
AfterBanner(next) == "halted"

\* the step at dash_pc is executed; on success control goes to next
DashStep(next) ==
    /\ dash_steps' = Append(dash_steps, dash_pc)
    /\ dash_pc' = next

\* st.error(...) and st.stop() for the step at dash_pc
DashFail(next) ==
    /\ dash_steps' = Append(dash_steps, dash_pc)
    /\ dash_banner' = dash_pc
    /\ dash_pc' = AfterBanner(next)

\* an exception no handler catches ends the script run
DashCrash ==
    /\ dash_steps' = Append(dash_steps, dash_pc)
    /\ dash_pc' = "crashed"

StatsLoaded(loaded) ==
    IF loaded = Raise
    THEN DashFail("player_mapping") /\ UNCHANGED dash_loaded
    ELSE DashStep("player_mapping") /\ dash_loaded' = loaded /\ UNCHANGED dash_banner

\* lines 68-106: load, standardize and combine the two stats files
DashLoadStats ==
    /\ dash_pc = "stats"
    /\ \E historic_file \in {f \in HistoricStatsFiles(MaxEventRows) : WellFormed(f)},
          current_file \in CurrentStatsFiles :
          StatsLoaded(LoadStats(historic_file, current_file))
    /\ UNCHANGED <<dash_named, dash_df, player_mapping, player_subset, league_mapping,
                   team_info, dash_tabs>>
    /\ UNCHANGED outsideDash

PlayersSubset(cleaned, subset) ==
    IF subset = Raise
    THEN DashFail("league_mapping") /\ UNCHANGED <<player_mapping, player_subset>>
    ELSE /\ DashStep("league_mapping")
         /\ player_mapping' = cleaned
         /\ player_subset' = subset
         /\ UNCHANGED dash_banner

PlayersLoaded(cleaned) ==
    IF cleaned = Raise
    THEN DashFail("league_mapping") /\ UNCHANGED <<player_mapping, player_subset>>
    ELSE PlayersSubset(cleaned, player_mapping_subset(cleaned.df))

\* lines 108-160: player_mapping.csv
DashLoadPlayers ==
    /\ dash_pc = "player_mapping"
    /\ \E file \in PlayerFiles(MaxPlayerRows) :
          IF file = Absent
          THEN DashFail("league_mapping") /\ UNCHANGED <<player_mapping, player_subset>>
          ELSE PlayersLoaded(PlayerMappingCleaned(file.df))
    /\ UNCHANGED <<dash_loaded, dash_named, dash_df, league_mapping, team_info, dash_tabs>>
    /\ UNCHANGED outsideDash

\* lines 162-174: league_mapping.csv
DashLoadLeagues ==
    /\ dash_pc = "league_mapping"
    /\ \E file \in LeagueFiles :
          IF file \in {Absent, BadCsv}
          THEN DashFail("team_info") /\ UNCHANGED league_mapping
          ELSE DashStep("team_info") /\ league_mapping' = file /\ UNCHANGED dash_banner
    /\ UNCHANGED <<dash_loaded, dash_named, dash_df, player_mapping, player_subset,
                   team_info, dash_tabs>>
    /\ UNCHANGED outsideDash

\* lines 176-188: team_info.csv
DashLoadTeams ==
    /\ dash_pc = "team_info"
    /\ \E file \in TeamInfoFiles :
          IF file \in {Absent, BadCsv}
          THEN DashFail("team_str") /\ UNCHANGED team_info
          ELSE DashStep("team_str") /\ team_info' = file /\ UNCHANGED dash_banner
    /\ UNCHANGED <<dash_loaded, dash_named, dash_df, player_mapping, player_subset,
                   league_mapping, dash_tabs>>
    /\ UNCHANGED outsideDash

TeamsCast(events, players) ==
    IF events = Raise \/ players = Raise
    THEN DashCrash /\ UNCHANGED <<dash_loaded, player_mapping>>
    ELSE DashStep("merge") /\ dash_loaded' = events /\ player_mapping' = players

\* lines 190-210: Team as str in df and in player_mapping, outside any try
DashTeamStr ==
    /\ dash_pc = "team_str"
    /\ TeamsCast(TeamAsStr(dash_loaded.df), TeamAsStr(player_mapping.df))
    /\ UNCHANGED <<dash_banner, dash_named, dash_df, player_subset, league_mapping,
                   team_info, dash_tabs>>
    /\ UNCHANGED outsideDash

PlayersMerged(merged) ==
    IF merged = Raise
    THEN DashFail("league") /\ UNCHANGED dash_named
    ELSE DashStep("league") /\ dash_named' = merged /\ UNCHANGED dash_banner

\* lines 212-231: merge the player names into df
DashMergePlayers ==
    /\ dash_pc = "merge"
    /\ PlayersMerged(MergePlayers(dash_loaded.df, player_subset.df))
    /\ UNCHANGED <<dash_loaded, dash_df, player_mapping, player_subset, league_mapping,
                   team_info, dash_tabs>>
    /\ UNCHANGED outsideDash

LeaguesMerged(merged) ==
    IF merged = Raise
    THEN DashCrash /\ UNCHANGED dash_df
    ELSE DashStep("tabs") /\ dash_df' = merged

\* lines 233-262: derive the league of every team-year, outside any try
DashLeagues ==
    /\ dash_pc = "league"
    /\ LeaguesMerged(MergeLeagues(dash_named.df, league_mapping.df))
    /\ UNCHANGED <<dash_banner, dash_loaded, dash_named, player_mapping, player_subset,
                   league_mapping, team_info, dash_tabs>>
    /\ UNCHANGED outsideDash

\* lines 264-277 and the four with-blocks: the tabs are rendered
DashTabs ==
    /\ dash_pc = "tabs"
    /\ DashStep("rendered")
    /\ dash_tabs' = TRUE
    /\ UNCHANGED <<dash_banner, dash_loaded, dash_named, dash_df, player_mapping,
                   player_subset, league_mapping, team_info>>
    /\ UNCHANGED outsideDash

DashNext ==
    \/ DashLoadStats \/ DashLoadPlayers \/ DashLoadLeagues \/ DashLoadTeams
    \/ DashTeamStr \/ DashMergePlayers \/ DashLeagues \/ DashTabs

SpecDash == DashInit /\ [][DashNext]_vars


\* ------------------------------------------------------------------------
\* src/main.py, tab "Top Players" (lines 279-340)
\* ------------------------------------------------------------------------

\* the size of the table
TopN == 50

\* the largest number of players of a dataset
MaxPlayers == 52

\* the value of a Count, which stays far inside int64 here
IntValue(v) == IF v.neg THEN 0 - v.lo ELSE v.lo

\* df[mask]: the rows of df whose number is in keep, in order
RECURSIVE RowsWhere(_, _, _)
RowsWhere(df, keep, k) ==
    IF k > NumRows(df) THEN <<>>
    ELSE (IF k \in keep THEN <<k>> ELSE <<>>) \o RowsWhere(df, keep, k + 1)

\* line 316: (df["Year"] == selected_year) & (df["Event"] == selected_event_type)
YearEventMask(df, year, event) ==
    {k \in 1..NumRows(df) : Cell(df, "Year", k) = year /\ Cell(df, "Event", k) = event}

\* line 322: filtered_df["League"] == selected_league
LeagueMask(df, league) == {k \in 1..NumRows(df) : Cell(df, "League", k) = league}

FilterLeague(df, league) ==
    IF league = PyStr(<<"A", "l", "l">>) THEN df
    ELSE TakeRows(df, RowsWhere(df, LeagueMask(df, league), 1))

\* lines 316-324
FilterSelection(df, year, event, league) ==
    FilterLeague(TakeRows(df, RowsWhere(df, YearEventMask(df, year, event), 1)), league)

\* the order of the characters of the team names
CodePoint(c) == CASE c = "A" -> 65 [] c = "B" -> 66 [] OTHER -> 0

\* row i sorts before row j as a group key (Team, Player Number)
KeyBefore(df, i, j) ==
    \/ CodePoint(Cell(df, "Team", i).s[1]) < CodePoint(Cell(df, "Team", j).s[1])
    \/ /\ Cell(df, "Team", i) = Cell(df, "Team", j)
       /\ IntValue(Cell(df, "Player Number", i)) < IntValue(Cell(df, "Player Number", j))

\* groupby drops the rows with a missing key (dropna=True)
HasKey(df, k) == ~IsNA(Cell(df, "Team", k)) /\ ~IsNA(Cell(df, "Player Number", k))

\* the first row of every group, in the order of the rows
RECURSIVE GroupRows(_, _)
GroupRows(df, k) ==
    IF k > NumRows(df) THEN <<>>
    ELSE (IF HasKey(df, k) /\ ~\E e \in 1..(k - 1) :
                 KeysEqual(df, e, df, k, <<"Team", "Player Number">>)
          THEN <<k>> ELSE <<>>)
           \o GroupRows(df, k + 1)

\* the groups in the order of their keys (sort=True)
RECURSIVE InsertKey(_, _, _)
InsertKey(df, sorted, k) ==
    IF sorted = <<>> THEN <<k>>
    ELSE IF KeyBefore(df, k, sorted[1]) THEN <<k>> \o sorted
    ELSE <<sorted[1]>> \o InsertKey(df, Tail(sorted), k)

RECURSIVE SortKeys(_, _, _)
SortKeys(df, rows, sorted) ==
    IF rows = <<>> THEN sorted
    ELSE SortKeys(df, Tail(rows), InsertKey(df, sorted, rows[1]))

\* .agg({"Count": "sum"}) of the group of row g
RECURSIVE GroupSum(_, _, _)
GroupSum(df, g, k) ==
    IF k > NumRows(df) THEN 0
    ELSE (IF KeysEqual(df, g, df, k, <<"Team", "Player Number">>)
          THEN IntValue(Cell(df, "Count", k)) ELSE 0)
           + GroupSum(df, g, k + 1)

Grouped(df, groups) ==
    <<Column("Team", "object", [i \in 1..Len(groups) |-> Cell(df, "Team", groups[i])]),
      Column("Player Number", "Int64",
             [i \in 1..Len(groups) |-> Cell(df, "Player Number", groups[i])]),
      Column("Count", "int64", [i \in 1..Len(groups) |-> PyInt(GroupSum(df, groups[i], 1))])>>

\* line 327: groupby(["Team", "Player Number"]).agg({"Count": "sum"}).reset_index()
GroupByPlayer(df) == Grouped(df, SortKeys(df, GroupRows(df, 1), <<>>))

\* lines 329-333: the name of every player of the table
MergeNames(table, df) ==
    MergeLeft(table, DropDuplicates(df, <<"Team", "Player Number", "Name">>),
              <<"Team", "Player Number">>)

\* a sort that puts the smallest Count first
SortsBefore_Ascending(a, b, ties) == a < b \/ (ties /\ a = b)

\* ascending=False: the larger Count first; the default sort of pandas is not
\* stable, so that rows of equal Count come in either order
SortsBefore(a, b, ties) == a > b \/ (ties /\ a = b)

RECURSIVE InsertCount(_, _, _, _)
InsertCount(df, sorted, k, ties) ==
    IF sorted = <<>> THEN <<k>>
    ELSE IF SortsBefore(IntValue(Cell(df, "Count", k)), IntValue(Cell(df, "Count", sorted[1])), ties)
    THEN <<k>> \o sorted
    ELSE <<sorted[1]>> \o InsertCount(df, Tail(sorted), k, ties)

RECURSIVE SortCounts(_, _, _, _)
SortCounts(df, k, sorted, ties) ==
    IF k > NumRows(df) THEN sorted
    ELSE SortCounts(df, k + 1, InsertCount(df, sorted, k, ties), ties)

\* sort_values(by="Count", ascending=False)
SortValues(df, ties) == TakeRows(df, SortCounts(df, 1, <<>>, ties))

\* .head(n)
HeadRows(df, n) == TakeRows(df, [k \in 1..(IF NumRows(df) < n THEN NumRows(df) ELSE n) |-> k])

\* line 334
TopOfTable(df, ties) == HeadRows(SortValues(df, ties), TopN)

\* sorted(df[name].unique())
Uniques(df, name) == {Cell(df, name, k) : k \in 1..NumRows(df)}

\* the event rows of a dataset: one touchdown row per player of team A in 2025,
\* a second row for every third player, and rows of another year, event, league
\* and of a player without a number
Touchdown == PyStr(<<"T", "D">>)
PlayerRow(p, step) ==
    [Team |-> TeamA, Number |-> PyInt(p), Year |-> PyInt(2025), Event |-> Touchdown,
     League |-> PyStr(<<"DFFL">>), Count |-> PyInt(((p * step) % 7) + 1), Name |-> PyStr(<<"x">>)]

SecondRow(p) == [PlayerRow(3 * p, 1) EXCEPT !.Count = PyInt(2)]

OtherRows ==
    <<[PlayerRow(1, 1) EXCEPT !.Year = PyInt(2024), !.Count = PyInt(9),
                               !.League = PyStr(<<"Other Leagues">>)],
      [PlayerRow(2, 1) EXCEPT !.Event = PyStr(<<"I", "N", "T">>), !.Count = PyInt(9)],
      [PlayerRow(1, 1) EXCEPT !.Team = TeamB, !.League = PyStr(<<"Other Leagues">>),
                               !.Count = PyInt(9), !.Name = PyNaN],
      [PlayerRow(1, 1) EXCEPT !.Number = PyNA, !.Count = PyInt(9), !.Name = PyNaN]>>

EventRows(players, step) ==
    [p \in 1..players |-> PlayerRow(p, step)]
      \o OtherRows
      \o [p \in 1..(players \div 3) |-> SecondRow(p)]

EventFrame(rows) ==
    <<Column("Team", "object", [k \in 1..Len(rows) |-> rows[k].Team]),
      Column("Player Number", "Int64", [k \in 1..Len(rows) |-> rows[k].Number]),
      Column("Year", "int64", [k \in 1..Len(rows) |-> rows[k].Year]),
      Column("Event", "object", [k \in 1..Len(rows) |-> rows[k].Event]),
      Column("Count", "int64", [k \in 1..Len(rows) |-> rows[k].Count]),
      Column("Name", "object", [k \in 1..Len(rows) |-> rows[k].Name]),
      Column("League", "object", [k \in 1..Len(rows) |-> rows[k].League])>>

PlayerCounts(most) == {0, 1, 2, 3, TopN - 1, TopN, TopN + 1} \cup {most}

TopInit ==
    /\ CleanIdle
    /\ StdIdle
    /\ ScrapeIdle
    /\ FetchIdle
    /\ MergeIdle
    /\ HistIdle
    /\ DashIdle
    /\ top_pc = "select"
    /\ top_df \in {FrameVal(EventFrame(EventRows(players, step))) :
                       players \in PlayerCounts(MaxPlayers), step \in {1, 3}}
    /\ selected_year = PyNone
    /\ selected_event_type = PyNone
    /\ selected_league = PyNone
    /\ filtered_df = Pending
    /\ top_players = Pending

\* lines 281-308: the three select boxes
TopSelect ==
    /\ top_pc = "select"
    /\ selected_year' \in Uniques(top_df.df, "Year")
    /\ selected_league' \in {PyStr(<<"A", "l", "l">>)} \cup Uniques(top_df.df, "League")
    /\ selected_event_type' \in Uniques(top_df.df, "Event")
    /\ top_pc' = "filter"
    /\ UNCHANGED <<top_df, filtered_df, top_players>>
    /\ UNCHANGED outsideTop

\* lines 316-324
TopFilter ==
    /\ top_pc = "filter"
    /\ filtered_df' = FrameVal(FilterSelection(top_df.df, selected_year, selected_event_type,
                                               selected_league))
    /\ top_pc' = "group"
    /\ UNCHANGED <<top_df, selected_year, selected_event_type, selected_league, top_players>>
    /\ UNCHANGED outsideTop

\* line 327
TopGroup ==
    /\ top_pc = "group"
    /\ top_players' = FrameVal(GroupByPlayer(filtered_df.df))
    /\ top_pc' = "names"
    /\ UNCHANGED <<top_df, selected_year, selected_event_type, selected_league, filtered_df>>
    /\ UNCHANGED outsideTop

\* lines 329-333
TopNames ==
    /\ top_pc = "names"
    /\ top_players' = FrameVal(MergeNames(top_players.df, filtered_df.df))
    /\ top_pc' = "sort"
    /\ UNCHANGED <<top_df, selected_year, selected_event_type, selected_league, filtered_df>>
    /\ UNCHANGED outsideTop

\* line 334 and the subheader of lines 337-340
TopSort ==
    /\ top_pc = "sort"
    /\ \E ties \in BOOLEAN : top_players' = FrameVal(TopOfTable(top_players.df, ties))
    /\ top_pc' = "shown"
    /\ UNCHANGED <<top_df, selected_year, selected_event_type, selected_league, filtered_df>>
    /\ UNCHANGED outsideTop

TopNext == TopSelect \/ TopFilter \/ TopGroup \/ TopNames \/ TopSort

SpecTop == TopInit /\ [][TopNext]_vars

\* ------------------------------------------------------------------------
\* Properties of standardize_dataframe
\* ------------------------------------------------------------------------
Returned(r) == r.t = "ref"

\* the frame a call returned
Frame(r) == heap[r.id]

\* every column of out has the cells of the same column of in, row by row:
\* untouched when the column is not coerced, as text when it is coerced to str
SameRows(in, out) ==
    /\ Len(out) = Len(in)
    /\ \A i \in 1..Len(in) :
          /\ Len(out[i].data) = Len(in[i].data)
          /\ out[i].name = "Note" => out[i].data = in[i].data
          /\ out[i].name = "Opponent" =>
                \A k \in 1..Len(in[i].data) : out[i].data[k] = PyStr(PyStrOf(in[i].data[k]))

\* C1: with is_german=True every column whose name is a key of the mapping
\* gets the mapped English name and every other column keeps its name; with
\* is_german=False no column is renamed; the rows keep number and order.
C1_RenamesMappedColumns ==
    /\ Returned(historic_df) =>
          /\ SameRows(df_before[1], Frame(historic_df))
          /\ \A i \in 1..Len(df_before[1]) :
                Frame(historic_df)[i].name = EnglishName(df_before[1][i].name)
    /\ Returned(current_df) =>
          /\ SameRows(df_before[2], Frame(current_df))
          /\ Columns(Frame(current_df)) = Columns(df_before[2])
    /\ Returned(plain_df) =>
          /\ SameRows(df_before[1], Frame(plain_df))
          /\ Columns(Frame(plain_df)) = Columns(df_before[1])

\* a two-row export with columns Gegen and Note came back as Opponent and
\* Note from the German call and unrenamed from the is_german=False call
C1_Witness ==
    /\ Returned(historic_df) /\ Returned(plain_df)
    /\ Columns(df_before[1]) = <<"Gegen", "Note">>
    /\ df_before[1][2].data = <<PyStr(<<"7">>), PyStr(<<"x">>)>>
    /\ Columns(Frame(historic_df)) = <<"Opponent", "Note">>
    /\ Columns(Frame(plain_df)) = <<"Gegen", "Note">>

\* C2: the German-named table standardized with is_german=True and the
\* same rows under English names standardized with is_german=False give the
\* same column names, types and values (and the one call fails exactly when
\* the other does).
C2_BothLanguagesOneSchema ==
    (historic_df # Pending /\ current_df # Pending) =>
        /\ Returned(historic_df) <=> Returned(current_df)
        /\ Returned(historic_df) => Frame(historic_df) = Frame(current_df)

\* both calls returned for an export with German names Spielernummer and Anzahl
C2_Witness ==
    /\ Returned(historic_df) /\ Returned(current_df)
    /\ Columns(df_before[1]) = <<"Spielernummer", "Anzahl">>
    /\ Columns(df_before[2]) = <<"Player Number", "Count">>
    /\ NumRows(df_before[1]) = 2
    /\ Frame(historic_df) = Frame(current_df)

PlayerNumberIsInt64(df) ==
    \A i \in 1..Len(df) :
        df[i].name = "Player Number" =>
            /\ df[i].dtype = "Int64"
            /\ \A k \in 1..Len(df[i].data) : df[i].data[k].t \in {"int", "NA"}

\* C3: in the frame standardize_dataframe returns, a Player Number column
\* is a nullable-integer column: every value is an integer or missing,
\* never a string.
C3_PlayerNumberInt64 ==
    \A r \in {historic_df, current_df, plain_df} : Returned(r) => PlayerNumberIsInt64(Frame(r))

\* C4: the frames passed to standardize_dataframe are never modified,
\* whether the call returns or raises, and a returned frame is a separate one.
C4_ArgumentUntouched ==
    /\ heap[1] = df_before[1]
    /\ heap[2] = df_before[2]
    /\ \A r \in {historic_df, current_df, plain_df} : Returned(r) => r.id \notin {1, 2}

\* the is_german=False call assigned a cleaned Player Number column and
\* returned a changed frame, and the German call on the same frame raised
C4_Witness ==
    /\ std_pc = "done"
    /\ HasColumn(df_before[1], "Player Number")
    /\ NumRows(df_before[1]) = 2
    /\ Returned(plain_df)
    /\ Frame(plain_df) # df_before[1]
    /\ historic_df = Raise

\* ------------------------------------------------------------------------
\* Properties of clean_player_number
\* ------------------------------------------------------------------------
AllCleaned == cfg_result # Pending /\ main_result # Pending /\ upd_result # Pending

\* C5: for every input value the three clean_player_number definitions
\* (config.py, main.py, update_2025_stats.py) return the same result.
C5_ThreeDefinitionsAgree ==
    AllCleaned => (cfg_result = main_result /\ main_result = upd_result)

\* a scanner for number literals, written independently of IntOfFloatText:
\* st is "start", "signed", "int" (digits seen), "dot" (a dot before any
\* digit) or "frac" (a dot after digits, or digits after a dot)
RECURSIVE NumScan(_, _)
NumScan(s, st) ==
    IF s = <<>> THEN st \in {"int", "frac"}
    ELSE LET c == Head(s)
         IN  CASE IsDigit(c) ->
                    NumScan(Tail(s), IF st \in {"start", "signed", "int"} THEN "int" ELSE "frac")
               [] c \in {"-", "+"} -> st = "start" /\ NumScan(Tail(s), "signed")
               [] c = "." ->
                    /\ st \in {"start", "signed", "int"}
                    /\ NumScan(Tail(s), IF st = "int" THEN "frac" ELSE "dot")
               [] OTHER -> FALSE

\* the text can be parsed as a number
IsNumberText(s) == NumScan(Strip(s), "start")

\* the integer n that a text reads as, either as 'n' or as 'n.0' with
\* surrounding whitespace ignored; Raise when it reads as neither
ReadsAsInteger(s) ==
    LET u == Strip(s)
        k == Len(u)
        pre == SubSeq(u, 1, k - 2)
    IN  IF IntOfText(u) # Raise THEN IntOfText(u)
        ELSE IF k > 2 /\ SubSeq(u, k - 1, k) = <<".", "0">> /\ Strip(pre) = pre
             THEN IntOfText(pre)
             ELSE Raise

\* |n| <= 2^53
FitsDouble(n) == n.hi < Two53Hi \/ (n.hi = Two53Hi /\ n.lo <= Two53Lo)

CleanFacts(limit) ==
    cfg_result # Pending =>
        /\ cfg_result.t \in {"None", "int"}
        /\ IsNA(value) => cfg_result = PyNone
        /\ (value.t = "str" /\ ReadsAsInteger(value.s) # Raise
               /\ (limit => FitsDouble(ReadsAsInteger(value.s))))
              => cfg_result = ReadsAsInteger(value.s)
        /\ (value.t = "str" /\ ~IsNumberText(value.s)) => cfg_result = PyNone
        /\ recleaned # Pending => recleaned = cfg_result

\* C6 as stated: config.clean_player_number returns None for a missing
\* value, the integer n for ANY text that reads as n or 'n.0', None for a
\* text that is not a number, and is idempotent on its result.
C6_CleanAnyInteger == CleanFacts(FALSE)

\* C6 amended: the same, for texts that read as an integer n with
\* |n| <= 2^53 (larger n pass through float() and come back rounded).
C6_CleanTotalIdempotent == CleanFacts(TRUE)

\* the text "19.0" was cleaned to 19 and cleaning 19 again gave 19
C6_Witness ==
    /\ value = PyStr(<<"1", "9", ".", "0">>)
    /\ cfg_result = PyInt(19)
    /\ recleaned = PyInt(19)


\* ------------------------------------------------------------------------
\* Properties of the scraper
\* ------------------------------------------------------------------------
\* every cell of the year column of df contains year_filter
YearRowsOnly(df, year_col) ==
    year_col # 0 =>
        \A k \in 1..NumRows(df) : Contains(PyStrOf(df[year_col].data[k]), YearFilter)

\* the file the current call of extract_table_data writes
OutputFile == IF ex_table = "table_1" THEN main_file ELSE detail_file

\* C7: extract_table_data returns None or a frame filtered for the year: when
\* the table has a year/date column, every row of the returned frame, and of
\* the file written to output_file, contains year_filter in that column.
C7_ReturnsRowsOfYear ==
    (ex_result # Pending /\ ex_result # PyNone) =>
        /\ YearRowsOnly(ex_result.df, FirstYearColumn(ex_result.df, 1))
        /\ OutputFile = ex_result

\* the main stats table was extracted successfully
MainExtracted == main_stats_df # Pending /\ ~NoFrame(main_stats_df)

\* C8: update_2025_data returns True on every run in which the main stats
\* table was extracted successfully, whatever happens to the detail table.
C8_TrueWhenMainExtracted ==
    (pc = "done" /\ MainExtracted) => ret = PyTrue

\* C9: update_2025_data never propagates an exception to its caller: after any
\* failure (browser launch, navigation, table_1 not found, table_1 data not
\* loaded, main stats extraction giving None or an empty frame, or any later
\* statement) the handler runs and the function returns False.
C9_NeverPropagates ==
    /\ pc # "propagated"
    /\ (pc = "done" /\ failed_at # "none") => ret = PyFalse
    /\ (pc = "done" /\ main_stats_df # Pending /\ NoFrame(main_stats_df)) =>
           (failed_at = "check_main" /\ ret = PyFalse)
    /\ ret = PyFalse => failed_at # "none"

\* a run whose main extraction gave None ended with False
C9_Witness ==
    /\ pc = "done"
    /\ failed_at = "check_main"
    /\ exc = "Exception"
    /\ main_stats_df = PyNone
    /\ ret = PyFalse

\* the outcomes of the API attempt that did not return a frame
ApiFellThrough == {"raised", "no_csv", "empty", "no_year_rows"}

\* C10: extract_table_data tries its strategies in sequence: the API export
\* first, the DOM extraction only if the API attempt did not return a frame,
\* and None only after both were attempted and neither returned a frame.
C10_StrategiesInSequence ==
    /\ attempts \in {<<>>, <<"api">>, <<"api", "dom">>}
    /\ pc = "dom" => (attempts = <<"api">> /\ api_outcome \in ApiFellThrough)
    /\ Len(attempts) = 2 => api_outcome \in ApiFellThrough
    /\ api_outcome = "returned" => (attempts = <<"api">> /\ ex_result # PyNone)
    /\ ex_result = PyNone => attempts = <<"api", "dom">>
    /\ pc = "fail" => attempts = <<"api", "dom">>

\* None was returned after the API had no rows for the year and the DOM failed
C10_Witness ==
    /\ ex_result = PyNone
    /\ attempts = <<"api", "dom">>
    /\ api_outcome = "no_year_rows"

\* ------------------------------------------------------------------------
\* Properties of fetch_dffl_csv
\* ------------------------------------------------------------------------
\* the reasons for which the Blob fallback fails
FallbackFailures == {"button_disabled", "button_hidden", "no_blob"}

\* C11: fetch_dffl_csv returns the path only after dffl_stats.csv was written
\* by exactly one of its two approaches; the Blob fallback is attempted only
\* when the API gave no data; when the fallback fails (button disabled or not
\* visible, no Blob data) the function raises and returns no path.
C11_PathOnlyAfterOneWrite ==
    /\ fetch_ret # Pending =>
           /\ fetch_ret = PyStr(<<"dffl_stats.csv">>)
           /\ Len(fetch_writes) = 1
           /\ fetch_file # Absent
           /\ fetch_writes = <<"api">> => fetch_file = fetch_csv
           /\ fetch_writes = <<"blob">> => fetch_file.t = "bytes"
    /\ Len(fetch_writes) <= 1
    /\ fetch_pc \in {"button", "capture"} => (fetch_csv # Pending /\ ~Truthy(fetch_csv))
    /\ fetch_attempts \in {<<>>, <<"api">>, <<"api", "blob">>}
    /\ Len(fetch_attempts) = 2 => (fetch_csv # Raise /\ ~Truthy(fetch_csv))
    /\ fetch_exc \in FallbackFailures =>
           (fetch_pc \in {"except", "raised"} /\ fetch_ret = Pending /\ fetch_writes = <<>>)
    /\ fetch_pc = "done" <=> fetch_ret # Pending
    /\ fetch_pc = "raised" => fetch_exc # "none"

\* the path was returned after the fallback wrote the decoded Blob
C11_Witness ==
    /\ fetch_pc = "done"
    /\ fetch_ret = PyStr(<<"dffl_stats.csv">>)
    /\ fetch_csv = PyNone
    /\ fetch_attempts = <<"api", "blob">>
    /\ fetch_writes = <<"blob">>
    /\ fetch_file = PyBytes(<<65, 65>>)

\* ------------------------------------------------------------------------
\* Properties of merge_detailed_stats.py
\* ------------------------------------------------------------------------
\* the listed order of the historic files: 2024, then 2023, then 2022
ListedFiles ==
    <<"Player Stats_detail (1).csv", "Player Stats_detail (2).csv",
      "Player Stats_detail (3).csv">>

\* the number of rows of a file, none when it is missing
FileRows(i) ==
    IF merge_files[ListedFiles[i]] = Absent THEN 0
    ELSE NumRows(merge_files[ListedFiles[i]].df)

\* the rows of the listed files before file i
RowsBefore(i) == IF i = 1 THEN 0 ELSE IF i = 2 THEN FileRows(1) ELSE FileRows(1) + FileRows(2)

\* the text written for a cell read from a file: the text read, or the same
\* number written as a float when its column lost the integer type
SameCell(read, written) == written = read \/ written.s = read.s \o <<".", "0">>

\* row k of file i stands at its place in the written table, cell by cell
RowWritten(i, k, out) ==
    \A c \in 1..Len(merge_files[ListedFiles[i]].df) :
        /\ ColumnIndex(out, merge_files[ListedFiles[i]].df[c].name, 1) # 0
        /\ SameCell(merge_files[ListedFiles[i]].df[c].data[k],
                    out[ColumnIndex(out, merge_files[ListedFiles[i]].df[c].name, 1)]
                        .data[RowsBefore(i) + k])

\* the historic files that do not exist, in the listed order
MissingListed == SelectSeq(ListedFiles, LAMBDA f : merge_files[f] = Absent)

\* C12: merge_historic_files writes the concatenation of the rows of those of
\* its three input files that exist, in the listed order 2024, 2023, 2022; a
\* missing file is skipped with a warning; the number of rows written is the
\* sum of the row counts of the files that exist.
C12_ConcatenatesExistingFiles ==
    (merge_pc \in {"prepare", "done"} /\ MissingListed # ListedFiles) =>
        /\ historic_out \notin {Absent, OldOutput}
        /\ NumRows(historic_out.df) = FileRows(1) + FileRows(2) + FileRows(3)
        /\ \A i \in 1..3 : \A k \in 1..FileRows(i) : RowWritten(i, k, historic_out.df)
        /\ SubSeq(merge_warned, 1, Len(MissingListed)) = MissingListed

\* 2024 is missing, 2023 has a row of two columns and 2022 a row of one
C12_Witness ==
    /\ merge_pc = "done"
    /\ merge_files[ListedFiles[1]] = Absent
    /\ FileRows(2) = 1
    /\ FileRows(3) = 1
    /\ Len(merge_files[ListedFiles[2]].df) = 2
    /\ merge_files[ListedFiles[3]].df[1].data[1] = PyStr(<<"7">>)
    /\ Len(historic_out.df) = 2
    /\ historic_out.df[2].data = <<PyStr(<<"x">>), PyStr(<<"7">>)>>
    /\ historic_out.df[1].data = <<PyStr(<<"x">>), PyStr(<<>>)>>

\* C13: a batch step whose inputs are all missing writes nothing and does not
\* raise: merge_historic_files leaves dffl_stats_detail_historic.csv untouched
\* when no historic file exists, prepare_2025_file leaves
\* dffl_stats_detail_2025.csv untouched when its input does not exist.
C13_NothingWrittenWhenMissing ==
    /\ [](merge_pc # "raised" /\ merge_exc = "none")
    /\ [][(merge_pc = "merge" /\ MissingListed = ListedFiles) =>
              (historic_out' = historic_out /\ merge_pc' = "prepare")]_vars
    /\ [][(merge_pc = "prepare" /\ input_2025' = Absent) =>
              (output_2025' = output_2025 /\ merge_pc' = "done")]_vars
    /\ []((merge_pc = "done" /\ MissingListed = ListedFiles) =>
              historic_out \in {Absent, OldOutput})
    /\ []((merge_pc = "done" /\ input_2025 = Absent) => output_2025 \in {Absent, OldOutput})

\* every input was missing and the outputs of an earlier run are still there
C13_Witness ==
    /\ merge_pc = "done"
    /\ MissingListed = ListedFiles
    /\ input_2025 = Absent
    /\ historic_out = OldOutput
    /\ output_2025 = OldOutput
    /\ Len(merge_warned) = 4

\* ------------------------------------------------------------------------
\* Properties of update_historic_data
\* ------------------------------------------------------------------------
\* the complete dataset read and standardized, as the text to_csv gives
StandardizedDataset == ToCsv(Standardized(ReadCsvTyped(hist_file).df, TRUE).df)

\* the text of a year before 2025
HistoricYearText(cell) ==
    /\ AllDigits(cell.s)
    /\ cell.s # <<>>
    /\ DigitsToW(cell.s, 0, 0)[1] = 0
    /\ DigitsToW(cell.s, 0, 0)[2] <= 2024

\* the rows of the standardized dataset with a year before 2025, in order
RECURSIVE HistoricRowNumbers(_, _)
HistoricRowNumbers(years, k) ==
    IF k > Len(years) THEN <<>>
    ELSE (IF HistoricYearText(years[k]) THEN <<k>> ELSE <<>>)
           \o HistoricRowNumbers(years, k + 1)

\* the table that holds the rows of full numbered by picks, in that order
RowsPicked(full, picks) ==
    [i \in 1..Len(full) |->
        Column(full[i].name, "object", [j \in 1..Len(picks) |-> full[i].data[picks[j]]])]

DashOrder ==
    <<"stats", "player_mapping", "league_mapping", "team_info", "team_str", "merge",
      "league", "tabs">>

\* the steps that end in st.error and st.stop when they fail
BannerSteps == {"stats", "player_mapping", "league_mapping", "team_info", "merge"}

\* what the step named has loaded, Pending until it succeeds
LoadedBy(step) ==
    CASE step = "stats" -> dash_loaded
      [] step = "player_mapping" -> player_subset
      [] step = "league_mapping" -> league_mapping
      [] step = "team_info" -> team_info
      [] step = "merge" -> dash_named

Executed(step) == \E i \in 1..Len(dash_steps) : dash_steps[i] = step

\* C15: the tabs are rendered only when the stats files, player_mapping.csv,
\* league_mapping.csv, team_info.csv and the player-name merge have all
\* succeeded; the steps run in that order, a step that fails or finds its file
\* missing shows an error banner and halts the script, and after a banner no
\* later step has run and no tab is rendered
C15_TabsOnlyWhenAllLoaded ==
    /\ Len(dash_steps) <= Len(DashOrder)
    /\ \A i \in 1..Len(dash_steps) : dash_steps[i] = DashOrder[i]
    /\ dash_tabs => (dash_banner = "none" /\ \A step \in BannerSteps : LoadedBy(step) # Pending)
    /\ \A step \in BannerSteps :
           (Executed(step) /\ LoadedBy(step) = Pending) =>
               (dash_banner = step /\ dash_pc = "halted")
    /\ dash_banner # "none" =>
           /\ dash_banner \in BannerSteps
           /\ dash_steps # <<>>
           /\ dash_steps[Len(dash_steps)] = dash_banner
           /\ LoadedBy(dash_banner) = Pending
           /\ dash_pc = "halted"
           /\ ~dash_tabs

\* C15 witness: the tabs are rendered after every step has succeeded
C15_Witness == dash_tabs /\ Len(dash_steps) = Len(DashOrder)

\* C15 witness of the failing case: the league mapping failed after the
\* stats and the player mapping were loaded
C15_HaltedWitness ==
    dash_banner = "league_mapping" /\ dash_pc = "halted" /\ dash_loaded # Pending

\* row j of the player mapping has the Team and Player Number of event row k,
\* a missing number matching a missing number as in the merge of pandas
SamePlayer(k, j) ==
    /\ Cell(dash_loaded.df, "Team", k) = Cell(player_subset.df, "Team", j)
    /\ \/ Cell(dash_loaded.df, "Player Number", k) = Cell(player_subset.df, "Player Number", j)
       \/ /\ IsNA(Cell(dash_loaded.df, "Player Number", k))
          /\ IsNA(Cell(player_subset.df, "Player Number", j))

MappingRows(k) == {j \in 1..NumRows(player_subset.df) : SamePlayer(k, j)}

\* two rows of the player mapping carry the same Team and Player Number
RepeatedPlayer ==
    \E i, j \in 1..NumRows(player_subset.df) :
        /\ i < j
        /\ Cell(player_subset.df, "Team", i) = Cell(player_subset.df, "Team", j)
        /\ \/ Cell(player_subset.df, "Player Number", i) = Cell(player_subset.df, "Player Number", j)
           \/ /\ IsNA(Cell(player_subset.df, "Player Number", i))
              /\ IsNA(Cell(player_subset.df, "Player Number", j))

NameJoined(k) ==
    IF MappingRows(k) = {} THEN IsNA(Cell(dash_named.df, "Name", k))
    ELSE /\ Cardinality(MappingRows(k)) = 1
         /\ \A j \in MappingRows(k) :
                Cell(dash_named.df, "Name", k) = Cell(player_subset.df, "Name", j)

\* C17: the player-name join is a many-to-one left join on (Team, Player
\* Number): the joined dataset has the rows of the event dataset, unchanged and
\* in the same number, each with the Name of the single row of player_mapping
\* with its Team and Player Number, or a missing Name when there is none; when
\* player_mapping repeats a (Team, Player Number) the join is rejected, a banner
\* is shown and the script halts
C17_ManyToOneLeftJoin ==
    /\ dash_named # Pending =>
           /\ NumRows(dash_named.df) = NumRows(dash_loaded.df)
           /\ \A i \in 1..Len(dash_loaded.df) : dash_named.df[i] = dash_loaded.df[i]
           /\ \A k \in 1..NumRows(dash_loaded.df) : NameJoined(k)
    /\ (Executed("merge") /\ RepeatedPlayer) =>
           (dash_named = Pending /\ dash_banner = "merge" /\ dash_pc = "halted")

\* C17 witness: a joined dataset with a row that found its player and a Name
C17_Witness ==
    /\ dash_named # Pending
    /\ \E k \in 1..NumRows(dash_named.df) :
           MappingRows(k) # {} /\ ~IsNA(Cell(dash_named.df, "Name", k))

\* C17 witness of the rejected join
C17_RejectedWitness == Executed("merge") /\ RepeatedPlayer /\ dash_banner = "merge"

\* the leagues league_mapping.csv lists for the team and year of row k of the
\* final dataset
ListedLeagues(k) ==
    {Cell(league_mapping.df, "League", j) : j \in
        {i \in 1..NumRows(league_mapping.df) :
            /\ Cell(league_mapping.df, "Year", i) = Cell(dash_df.df, "Year", k)
            /\ Cell(league_mapping.df, "Team", i) = Cell(dash_df.df, "Team", k)
            /\ ~IsNA(Cell(league_mapping.df, "League", i))}}

YearDefault(year) ==
    IF year.lo <= 2022 THEN PyStr(<<"Combined">>) ELSE PyStr(<<"Other Leagues">>)

\* C16: every event row carries a non-missing League: a League that
\* league_mapping.csv lists for its (Year, Team) when it lists one that is not
\* missing, else "Combined" up to 2022 and "Other Leagues" from 2023 on
C16_LeagueOfTeamYear ==
    dash_df # Pending =>
        \A k \in 1..NumRows(dash_df.df) :
            /\ ~IsNA(Cell(dash_df.df, "League", k))
            /\ IF ListedLeagues(k) # {}
               THEN Cell(dash_df.df, "League", k) \in ListedLeagues(k)
               ELSE Cell(dash_df.df, "League", k) = YearDefault(Cell(dash_df.df, "Year", k))

\* C16 holds when league_mapping.csv lists no (Year, Team) twice
LeagueKeysUnique ==
    \A i, j \in 1..NumRows(league_mapping.df) :
        (/\ Cell(league_mapping.df, "Year", i) = Cell(league_mapping.df, "Year", j)
         /\ Cell(league_mapping.df, "Team", i) = Cell(league_mapping.df, "Team", j)) => i = j

C16_HoldsForUniqueKeys == (dash_df # Pending /\ LeagueKeysUnique) => C16_LeagueOfTeamYear

\* C18: the league merge keeps the number of event rows, whatever
\* league_mapping.csv holds
C18_LeagueMergeKeepsRows ==
    dash_df # Pending => NumRows(dash_df.df) = NumRows(dash_named.df)

C18_HoldsForUniqueKeys == (dash_df # Pending /\ LeagueKeysUnique) => C18_LeagueMergeKeepsRows

\* ------------------------------------------------------------------------
\* Properties of the Top Players table (src/main.py)
\* ------------------------------------------------------------------------

\* the event rows of the dataset that match the selection
SelectedRows ==
    {k \in 1..NumRows(top_df.df) :
        /\ Cell(top_df.df, "Year", k) = selected_year
        /\ Cell(top_df.df, "Event", k) = selected_event_type
        /\ \/ selected_league = PyStr(<<"A", "l", "l">>)
           \/ Cell(top_df.df, "League", k) = selected_league}

\* the matching event rows of the player (team, number)
RowsOfPlayer(team, number) ==
    {k \in SelectedRows :
        Cell(top_df.df, "Team", k) = team /\ Cell(top_df.df, "Player Number", k) = number}

RECURSIVE CountOver(_)
CountOver(rows) ==
    IF rows = {} THEN 0
    ELSE IntValue(Cell(top_df.df, "Count", CHOOSE k \in rows : TRUE))
           + CountOver(rows \ {CHOOSE k \in rows : TRUE})

\* the players of the selection: the (Team, Player Number) of its rows that
\* carry a number
SelectedPlayers ==
    {<<Cell(top_df.df, "Team", k), Cell(top_df.df, "Player Number", k)>> :
        k \in {r \in SelectedRows : ~IsNA(Cell(top_df.df, "Player Number", r))}}

TablePlayers ==
    {<<Cell(top_players.df, "Team", i), Cell(top_players.df, "Player Number", i)>> :
        i \in 1..NumRows(top_players.df)}

====
